---- MODULE Spec2Model ----
(***************************************************************************)
(* Classical decoding and post-selection layer of the 7-qubit colour-code  *)
(* experiments: syndrome_evals.py and kernel_builder.py of QuantumETS and  *)
(* the post-selection notebook furious_five.py.                            *)
(*                                                                         *)
(* The specifications share the module, one per program:                   *)
(*   SpecSyn     the pure functions of syndrome_evals.py applied to a      *)
(*               record                                                    *)
(*   SpecArg     the same functions on arguments of the caller's choosing  *)
(*               (reordered values, short or non-binary records)           *)
(*   SpecXZ      xz_error_detection: its operations in program order, the  *)
(*               syndromes, the two if/elif correction ladders, the        *)
(*               logical read-out                                          *)
(*   SpecPS      post_select: sampling, the round loop over alive_mask,    *)
(*               the three returned rates                                  *)
(*   SpecFF      sample, syndromes, noise_free_mask, logical_obs on one    *)
(*               array                                                     *)
(*   SpecSweep   the two sweep loops of Part 4 and their result tables     *)
(*   SpecQec     qec_factory without a noise model, run statement by       *)
(*               statement on a stabilizer tableau, then post-selected     *)
(*   SpecKernels xz_error_detection or qec, whichever is run               *)
(*   SpecTwin    post_select on two sampler outputs with the same ancilla  *)
(*               records, result_is_valid on two records with the same     *)
(*               plaquette parities                                        *)
(*   SpecConv    the 0/1 functions of syndrome_evals.py and the -1/+1      *)
(*               functions of furious_five.py on the same records          *)
(*   SpecPoi     configure_poi and get_poi_kernel called by experiments    *)
(*               that run in one process                                   *)
(*   SpecIsolated  _isolated_noise_model on any noise_type                 *)
(*   SpecCompare   the loop of compare_all_noise_types and its ranking     *)
(* Each specification leaves the other programs' variables at their idle   *)
(* values.                                                                 *)
(***************************************************************************)
EXTENDS Integers, Sequences, FiniteSets, TLC

VARIABLES
    \* ---- syndrome_evals.py -------------------------------------------
    results,        \* the measurement record handed to the functions
    se_pc,          \* "idle" | "syndromes" | "valid" | "decoded" | "lookup"
    colors,         \* tuple returned by evaluate_syndromes
    key,            \* tuple of strings handed to evaluate_faulty_qubit
    is_valid,       \* value returned by result_is_valid
    faulty,         \* outcome of evaluate_faulty_qubit
    \* ---- kernel_builder.xz_error_detection ---------------------------
    xz_pc,          \* "idle" | "alloc" | "measured" | "x_done" | "z_done" | "done"
    xz_ops,         \* operations of the kernel executed so far, in order
    clean,          \* the fault-free record of the encoded block
    fault_x,        \* index of the X fault on the data block, -1 for none
    fault_z,        \* index of the Z fault on the data block, -1 for none
    bits_x,         \* ancilla record of the X check
    bits_z,         \* ancilla record of the Z check
    bits_psi,       \* read-out of data qubits 0, 1, 5
    frame_x,        \* data block as seen by the X check (bit-flip frame)
    frame_z,        \* data block as seen by the Z check (phase-flip frame)
    brg,            \* (blue, red, green) as last assigned in the kernel
    \* ---- furious_five.post_select ------------------------------------
    ps_pc,          \* "idle" | "loop" | "returned"
    iterations,     \* keyword argument of post_select
    shots,          \* keyword argument of post_select
    samples,        \* sample(circ, shots): shots rows of -1/+1
    values,         \* logical_obs(samples[:, -7:])
    alive_mask,     \* per-shot boolean
    ps_i,           \* loop variable i of post_select
    alive_hist,     \* alive_mask as printed after each step (verbose trace)
    ps_reads,       \* the column slices of samples read so far, in order
    ps_ret,         \* the returned triple
    \* ---- syndrome_evals.py on caller-chosen arguments ------------------
    arg_pc,         \* "idle" | "permuted" | "extracted" | "passed"
    arg_record,     \* the record handed to evaluate_syndromes
    arg_plaquette,  \* indices whose values the caller permutes
    arg_permuted,   \* arg_record with those values permuted
    arg_colors,     \* evaluate_syndromes(arg_record)
    arg_colors_perm,\* evaluate_syndromes(arg_permuted)
    arg_group,      \* the list handed to extract_syndrome
    arg_group_perm, \* a reordering of arg_group
    arg_parity,     \* extract_syndrome(arg_group)
    arg_parity_perm,\* extract_syndrome(arg_group_perm)
    arg_eval,       \* outcome of evaluate_syndromes on a malformed record
    arg_valid,      \* outcome of result_is_valid on a malformed record
    \* ---- furious_five.py helper functions on one array ----------------
    ff_pc,          \* "idle" | "applied"
    ff_raw,         \* rows of 0/1 as the sampler returns them
    ff_arr,         \* sample: the same rows in the -1/+1 convention
    ff_synds,       \* syndromes(ff_arr)
    ff_mask,        \* noise_free_mask(ff_arr)
    ff_values,      \* logical_obs(ff_arr)
    \* ---- furious_five.py Part 4: the sweep ----------------------------
    sw_pc,          \* "depol" | "nm" | "frames" | "done" | "aborted"
    sw_k,           \* cells of the current loop already run
    depol_results,  \* list of rows of the depolarizing sweep
    nm_results,     \* list of rows of the noise-model sweep
    sw_calls,       \* keyword arguments of every post_select call so far
    sw_faulty,      \* cells so far whose samples were not all clean
    sw_raised,      \* the call in which a collaborator raised, <<>> if none
    depol_csv,      \* rows written to depol_results.csv
    nm_csv,         \* rows written to nm_results.csv
    \* ---- furious_five.py Part 2: qec_factory(...) sampled ---------------
    qec_pc,         \* "idle" | "call" | "built" | "loop" | "sampled" | "returned"
    qec_iterations, \* keyword argument iterations
    qec_noise,      \* keyword argument noise, in thousandths
    qec_shots,      \* shots asked of the sampler
    qec_shot,       \* shots already sampled
    qec_i,          \* passes of the loop of qec already run in this shot
    qec_tab,        \* stabilizer tableau of q
    qec_rec,        \* measurement record of this shot so far
    qec_nf,         \* Pauli faults applied by the noise channels so far
    qec_ops,        \* operations of qec executed in this shot, in order
    qec_raw,        \* rows of the sampler's output, one per finished shot
    qec_ret,        \* the triple post_select returns
    \* ---- two trials of post_select, two records of result_is_valid -----
    tw_pc,          \* "idle" | "trials" | "records"
    tw_n,           \* iterations of both trials
    tw_raw_a,       \* sampler rows of the first trial
    tw_raw_b,       \* sampler rows of the second trial
    tw_alive_a,     \* alive_mask of the first trial after its loop
    tw_alive_b,     \* alive_mask of the second trial after its loop
    tw_ret_a,       \* triple returned by the first trial
    tw_ret_b,       \* triple returned by the second trial
    tw_rec_a,       \* first record handed to result_is_valid
    tw_rec_b,       \* second record handed to result_is_valid
    tw_valid_a,     \* result_is_valid(tw_rec_a)
    tw_valid_b,     \* result_is_valid(tw_rec_b)
    \* ---- pauley_x/manual_noise_injection.py ----------------------------
    poi_heap,       \* the dict objects alive in the process, by reference
    POI_CONFIG,     \* the module global: a reference into poi_heap
    poi_pc,         \* per experiment: "start" | "configured" | "got"
    poi_arg,        \* per experiment: reference of the dict it passed last
    poi_own,        \* per experiment: that dict as it was when passed
    poi_latest,     \* the dict of the latest configure_poi call, as passed
    poi_seen,       \* per experiment: poi_latest when it asked for a kernel
    poi_label,      \* per experiment: label handed to get_poi_kernel
    poi_kernel,     \* per experiment: what get_poi_kernel returned
    poi_calls,      \* configure_poi calls so far
    poi_mutations,  \* in-place changes of a passed dict so far
    \* ---- the same records in the 0/1 and the -1/+1 convention ----------
    cv_pc,          \* "idle" | "applied"
    cv_raw,         \* rows of 0/1, one 7-bit record each
    cv_colors,      \* per row: evaluate_syndromes(record)
    cv_valid,       \* per row: result_is_valid(record)
    cv_logical,     \* per row: resultat_logical_observable of the record
    cv_arr,         \* sample: the rows in the -1/+1 convention
    cv_synds,       \* syndromes(cv_arr)
    cv_mask,        \* noise_free_mask(cv_arr)
    cv_values,      \* logical_obs(cv_arr)
    cv_error,       \* logical_error(cv_values)
    \* ---- pauley_x/automated_noise_analysis/noise_injection.py ----------
    nz_pc,          \* "idle" | "called"
    nz_type,        \* argument noise_type of _isolated_noise_model
    nz_scaling,     \* argument scaling_factor, in thousandths
    nz_class,       \* argument model_class
    nz_out,         \* what the call raised, or the keyword arguments of the
                    \* model it built
    cmp_pc,         \* "idle" | "loop" | "returned"
    cmp_shots,      \* argument shots of compare_all_noise_types
    cmp_k,          \* entries of noise_types already gone through
    cmp_results,    \* the dict results: its items in insertion order
    cmp_log,        \* the line printed for each entry: "ok" or "failed"
    cmp_ret         \* the returned dict: its items in enumeration order

seVars == <<results, se_pc, colors, key, is_valid, faulty>>
xzVars == <<xz_pc, xz_ops, clean, fault_x, fault_z, bits_x, bits_z, bits_psi, frame_x,
            frame_z, brg>>
psVars == <<ps_pc, iterations, shots, samples, values, alive_mask, ps_i,
            alive_hist, ps_reads, ps_ret>>
argVars == <<arg_pc, arg_record, arg_plaquette, arg_permuted, arg_colors,
             arg_colors_perm, arg_group, arg_group_perm, arg_parity,
             arg_parity_perm, arg_eval, arg_valid>>
ffVars == <<ff_pc, ff_raw, ff_arr, ff_synds, ff_mask, ff_values>>
swVars == <<sw_pc, sw_k, depol_results, nm_results, sw_calls, sw_faulty,
            sw_raised, depol_csv, nm_csv>>
qecVars == <<qec_pc, qec_iterations, qec_noise, qec_shots, qec_shot, qec_i,
             qec_tab, qec_rec, qec_nf, qec_ops, qec_raw, qec_ret>>
twVars == <<tw_pc, tw_n, tw_raw_a, tw_raw_b, tw_alive_a, tw_alive_b, tw_ret_a,
            tw_ret_b, tw_rec_a, tw_rec_b, tw_valid_a, tw_valid_b>>
poiVars == <<poi_heap, POI_CONFIG, poi_pc, poi_arg, poi_own, poi_latest, poi_seen,
             poi_label, poi_kernel, poi_calls, poi_mutations>>
cvVars == <<cv_pc, cv_raw, cv_colors, cv_valid, cv_logical, cv_arr, cv_synds,
            cv_mask, cv_values, cv_error>>
nzVars == <<nz_pc, nz_type, nz_scaling, nz_class, nz_out>>
cmpVars == <<cmp_pc, cmp_shots, cmp_k, cmp_results, cmp_log, cmp_ret>>
auxVars == <<twVars, poiVars, cvVars, nzVars, cmpVars>>
extVars == <<argVars, ffVars, swVars, qecVars, auxVars>>
vars == <<seVars, xzVars, psVars, extVars>>

(***************************************************************************)
(* Bounds of the model.                                                    *)
(***************************************************************************)
MaxShots == 3
MaxIterations == 3
MaxRecords == 6
MaxValue == 2
MaxGroupLen == 4
MaxRows == 1
IterationsGridLen == 2
NoiseGridLen == 2
ScalingGridLen == 1
SweepShots == 1
MaxFaultyCells == 1
MaxFaults == 1
QecMaxIterations == 2
QecMaxShots == 2
QecMaxRounds == 2
QecMaxNoisyRounds == 1
TwinMaxRecords == 6
MaxConfigures == 2
MaxMutations == 1
NoiseTypesLen == 4
CompareShots == 2

(***************************************************************************)
(* Program constants.                                                      *)
(***************************************************************************)
n_sean_qubits == 7

Bit == {0, 1}
Record7 == [1..n_sean_qubits -> Bit]

\* Python's zero-based results[k] on a record held as a 1-based function.
At(rec, k) == rec[k + 1]

(***************************************************************************)
(* syndrome_evals.py                                                       *)
(***************************************************************************)

\* Python values that reach str.join: an int or a str.
PyInt(n) == [ty |-> "int", int |-> n, str |-> ""]
PyStr(s) == [ty |-> "str", int |-> 0, str |-> s]

FAULTY_QUBIT_MAP_swapped ==
    ("000" :> -1) @@ ("100" :> 0) @@ ("101" :> 1) @@ ("111" :> 2) @@
    ("110" :> 4) @@ ("011" :> 3) @@ ("001" :> 5) @@ ("010" :> 6)

FAULTY_QUBIT_MAP ==
    ("000" :> -1) @@ ("100" :> 0) @@ ("101" :> 1) @@ ("111" :> 2) @@
    ("110" :> 3) @@ ("011" :> 4) @@ ("001" :> 5) @@ ("010" :> 6)

RECURSIVE SumSeq(_)
SumSeq(group) ==
    IF group = <<>> THEN 0 ELSE Head(group) + SumSeq(Tail(group))

\* t = 0; for i in group: t = t + i; return t % 2
extract_syndrome_nomod(group) == SumSeq(group)

extract_syndrome(group) == SumSeq(group) % 2

result_is_valid_and(res) ==
    LET resultat_blue == extract_syndrome(<<At(res, 0), At(res, 1), At(res, 2), At(res, 3)>>)
        resultat_red == extract_syndrome(<<At(res, 2), At(res, 3), At(res, 4), At(res, 6)>>)
        resultat_green == extract_syndrome(<<At(res, 1), At(res, 2), At(res, 4), At(res, 5)>>)
    IN  ~(resultat_blue = 1 /\ resultat_red = 1 /\ resultat_green = 1)

result_is_valid(res) ==
    LET blue == <<At(res, 0), At(res, 1), At(res, 2), At(res, 3)>>
        red == <<At(res, 2), At(res, 3), At(res, 4), At(res, 6)>>
        green == <<At(res, 1), At(res, 2), At(res, 4), At(res, 5)>>
        logical_observable == <<At(res, 0), At(res, 1), At(res, 5)>>
        resultat_blue == extract_syndrome(blue)
        resultat_red == extract_syndrome(red)
        resultat_green == extract_syndrome(green)
        resultat_logical_observable == extract_syndrome(logical_observable)
    IN  IF resultat_blue = 1 \/ resultat_red = 1 \/ resultat_green = 1
        THEN FALSE
        ELSE TRUE

evaluate_syndromes_red_shifted(res) ==
    <<extract_syndrome(<<At(res, 0), At(res, 1), At(res, 2), At(res, 3)>>),
      extract_syndrome(<<At(res, 2), At(res, 3), At(res, 4), At(res, 5)>>),
      extract_syndrome(<<At(res, 1), At(res, 2), At(res, 4), At(res, 5)>>)>>

evaluate_syndromes_blue_shifted(res) ==
    <<extract_syndrome(<<At(res, 0), At(res, 1), At(res, 2), At(res, 4)>>),
      extract_syndrome(<<At(res, 2), At(res, 3), At(res, 4), At(res, 6)>>),
      extract_syndrome(<<At(res, 1), At(res, 2), At(res, 4), At(res, 5)>>)>>

evaluate_syndromes(res) ==
    LET blue == <<At(res, 0), At(res, 1), At(res, 2), At(res, 3)>>
        red == <<At(res, 2), At(res, 3), At(res, 4), At(res, 6)>>
        green == <<At(res, 1), At(res, 2), At(res, 4), At(res, 5)>>
        blue_plaquette_syndrome == extract_syndrome(blue)
        red_plaquette_syndrome == extract_syndrome(red)
        green_plaquette_syndrome == extract_syndrome(green)
    IN  <<blue_plaquette_syndrome, red_plaquette_syndrome, green_plaquette_syndrome>>

\* "".join(items): a TypeError unless every item is a str.
RECURSIVE Concat(_)
Concat(items) ==
    IF items = <<>> THEN "" ELSE Head(items).str \o Concat(Tail(items))

str_join(items) ==
    IF \E n \in 1..Len(items) : items[n].ty # "str"
    THEN [raised |-> "TypeError", str |-> ""]
    ELSE [raised |-> "none", str |-> Concat(items)]

\* syndrome_str = "".join(syndrome_brg); return FAULTY_QUBIT_MAP[syndrome_str]
evaluate_faulty_qubit(syndrome_brg) ==
    LET syndrome_str == str_join(syndrome_brg)
    IN  IF syndrome_str.raised # "none"
        THEN [raised |-> syndrome_str.raised, value |-> -1]
        ELSE IF syndrome_str.str \notin DOMAIN FAULTY_QUBIT_MAP
        THEN [raised |-> "KeyError", value |-> -1]
        ELSE [raised |-> "none", value |-> FAULTY_QUBIT_MAP[syndrome_str.str]]

\* The tuple of ints evaluate_syndromes returns, as the items str.join sees.
AsPyInts(t) == [n \in 1..Len(t) |-> PyInt(t[n])]

\* Strings a caller can hand to evaluate_faulty_qubit, item by item.
KeyItems == {"0", "1", "2", ""}
KeyTuples == [1..3 -> {PyStr(s) : s \in KeyItems}]

NoOutcome == [raised |-> "none", value |-> -1]

SynIdle ==
    /\ se_pc = "idle"
    /\ colors = <<0, 0, 0>>
    /\ key = <<>>
    /\ is_valid = TRUE
    /\ faulty = NoOutcome

SynInit ==
    /\ results \in Record7
    /\ SynIdle

CallEvaluateSyndromes ==
    /\ se_pc = "idle"
    /\ colors' = evaluate_syndromes(results)
    /\ se_pc' = "syndromes"
    /\ UNCHANGED <<results, key, is_valid, faulty>>
    /\ UNCHANGED <<xzVars, psVars, extVars>>

CallResultIsValid ==
    /\ se_pc = "syndromes"
    /\ is_valid' = result_is_valid(results)
    /\ se_pc' = "valid"
    /\ UNCHANGED <<results, colors, key, faulty>>
    /\ UNCHANGED <<xzVars, psVars, extVars>>

\* evaluate_faulty_qubit(evaluate_syndromes(results))
CallEvaluateFaultyQubit ==
    /\ se_pc = "valid"
    /\ faulty' = evaluate_faulty_qubit(AsPyInts(colors))
    /\ se_pc' = "decoded"
    /\ UNCHANGED <<results, colors, key, is_valid>>
    /\ UNCHANGED <<xzVars, psVars, extVars>>

\* evaluate_faulty_qubit on a tuple of strings chosen by the caller
CallLookup ==
    /\ se_pc = "idle"
    /\ \E syndrome_brg \in KeyTuples :
          /\ key' = [n \in 1..3 |-> syndrome_brg[n].str]
          /\ faulty' = evaluate_faulty_qubit(syndrome_brg)
    /\ se_pc' = "lookup"
    /\ UNCHANGED <<results, colors, is_valid>>
    /\ UNCHANGED <<xzVars, psVars, extVars>>

(***************************************************************************)
(* kernel_builder.xz_error_detection: the two ancilla records, the         *)
(* syndrome of each, the two if/elif ladders and the logical read-out.     *)
(* A single-qubit X (Z) fault on data qubit k shows as bit k of the X (Z)  *)
(* check's record; the correction squin.x (squin.z) on data qubit j flips  *)
(* bit j of that frame.                                                    *)
(***************************************************************************)

\* a ^ b on measurement bits
Xor(a, b) == (a + b) % 2

Flip(rec, k) == IF k = -1 THEN rec ELSE [rec EXCEPT ![k + 1] = 1 - @]

\* Records of the encoded block with no fault: every plaquette parity even.
CleanRecords == {rec \in Record7 : \A g \in 1..3 : evaluate_syndromes(rec)[g] = 0}

Faults == -1..(n_sean_qubits - 1)

\* blue/red/green of lines 205-207 and 224-226
kernel_syndrome(bits) ==
    <<Xor(Xor(Xor(At(bits, 0), At(bits, 1)), At(bits, 2)), At(bits, 3)),
      Xor(Xor(Xor(At(bits, 2), At(bits, 3)), At(bits, 4)), At(bits, 6)),
      Xor(Xor(Xor(At(bits, 1), At(bits, 2)), At(bits, 4)), At(bits, 5))>>

x_ladder_swapped(blue, red, green) ==
    IF blue = 1 /\ red = 0 /\ green = 0 THEN 0
    ELSE IF blue = 1 /\ red = 0 /\ green = 1 THEN 1
    ELSE IF blue = 1 /\ red = 1 /\ green = 1 THEN 2
    ELSE IF blue = 1 /\ red = 1 /\ green = 0 THEN 3
    ELSE IF blue = 0 /\ red = 1 /\ green = 1 THEN 4
    ELSE IF blue = 0 /\ red = 0 /\ green = 1 THEN 6
    ELSE IF blue = 0 /\ red = 1 /\ green = 0 THEN 5
    ELSE -1

\* The data qubit the X ladder applies squin.x to, -1 when no branch is taken.
x_ladder(blue, red, green) ==
    IF blue = 1 /\ red = 0 /\ green = 0 THEN 0
    ELSE IF blue = 1 /\ red = 0 /\ green = 1 THEN 1
    ELSE IF blue = 1 /\ red = 1 /\ green = 1 THEN 2
    ELSE IF blue = 1 /\ red = 1 /\ green = 0 THEN 3
    ELSE IF blue = 0 /\ red = 1 /\ green = 1 THEN 4
    ELSE IF blue = 0 /\ red = 0 /\ green = 1 THEN 5
    ELSE IF blue = 0 /\ red = 1 /\ green = 0 THEN 6
    ELSE -1

\* The data qubit the Z ladder applies squin.z to, -1 when no branch is taken.
\* Lines 209-222 and 228-241: the test of each branch and the data qubit
\* its gate acts on, in source order, as <<blue, red, green, qubit>>
x_branches ==
    << <<1, 0, 0, 0>>, <<1, 0, 1, 1>>, <<1, 1, 1, 2>>, <<1, 1, 0, 3>>,
       <<0, 1, 1, 4>>, <<0, 0, 1, 5>>, <<0, 1, 0, 6>> >>
z_branches ==
    << <<1, 0, 0, 0>>, <<1, 0, 1, 1>>, <<1, 1, 1, 2>>, <<1, 1, 0, 3>>,
       <<0, 1, 1, 4>>, <<0, 0, 1, 5>>, <<0, 1, 0, 6>> >>

z_ladder_short(blue, red, green) ==
    IF blue = 1 /\ red = 0 /\ green = 0 THEN 0
    ELSE IF blue = 1 /\ red = 0 /\ green = 1 THEN 1
    ELSE IF blue = 1 /\ red = 1 /\ green = 1 THEN 2
    ELSE IF blue = 1 /\ red = 1 /\ green = 0 THEN 3
    ELSE IF blue = 0 /\ red = 1 /\ green = 1 THEN 4
    ELSE IF blue = 0 /\ red = 0 /\ green = 1 THEN 5
    ELSE -1

\* The data qubit the Z ladder applies squin.z to, -1 when no branch is taken.
z_ladder(blue, red, green) ==
    IF blue = 1 /\ red = 0 /\ green = 0 THEN 0
    ELSE IF blue = 1 /\ red = 0 /\ green = 1 THEN 1
    ELSE IF blue = 1 /\ red = 1 /\ green = 1 THEN 2
    ELSE IF blue = 1 /\ red = 1 /\ green = 0 THEN 3
    ELSE IF blue = 0 /\ red = 1 /\ green = 1 THEN 4
    ELSE IF blue = 0 /\ red = 0 /\ green = 1 THEN 5
    ELSE IF blue = 0 /\ red = 1 /\ green = 0 THEN 6
    ELSE -1

ZeroRecord == [n \in 1..n_sean_qubits |-> 0]

\* An operation of a kernel: its name, the qubits it is broadcast over, the
\* partner qubits of a two-qubit gate, the probability of a noise channel
\* (in thousandths).  Qubits are numbered in allocation order.
Op(name, qs) == [op |-> name, qs |-> qs, ts |-> <<>>, p |-> 0]
Op2(name, qs, ts) == [op |-> name, qs |-> qs, ts |-> ts, p |-> 0]
Noise(name, prob, qs) == [op |-> name, qs |-> qs, ts |-> <<>>, p |-> prob]

\* q[lo:hi] of a list of qubits
Slice(q, lo, hi) == SubSeq(q, lo + 1, hi)

\* kernel_builder.py lines 44-60
color_code_factory(qubits) ==
    << Op("sqrt_y_adj", Slice(qubits, 0, 6)),
       Op2("cz", <<qubits[2]>>, <<qubits[3]>>),
       Op2("cz", <<qubits[4]>>, <<qubits[5]>>),
       Op2("cz", <<qubits[6]>>, <<qubits[7]>>),
       Op("sqrt_y", <<qubits[7]>>),
       Op2("cz", <<qubits[1]>>, <<qubits[4]>>),
       Op2("cz", <<qubits[3]>>, <<qubits[6]>>),
       Op2("cz", <<qubits[5]>>, <<qubits[7]>>),
       Op("sqrt_y", Slice(qubits, 2, 7)),
       Op2("cz", <<qubits[1]>>, <<qubits[2]>>),
       Op2("cz", <<qubits[3]>>, <<qubits[4]>>),
       Op2("cz", <<qubits[5]>>, <<qubits[6]>>),
       Op("sqrt_y", <<qubits[2], qubits[3], qubits[5]>>) >>

qubits_1 == [n \in 1..n_sean_qubits |-> n - 1]
qubits_2 == [n \in 1..n_sean_qubits |-> n_sean_qubits + n - 1]

\* Lines 169-180: the data block and the first ancilla block
xz_prologue ==
    << Op("qalloc", qubits_1),
       Noise("depolarize", 1000, <<qubits_1[1]>>),
       Op("x", <<qubits_1[7]>>),
       Op("h", <<qubits_1[7]>>) >>
    \o color_code_factory(qubits_1)
    \o << Op("qalloc", qubits_2), Op("h", <<qubits_2[7]>>) >>
    \o color_code_factory(qubits_2)

\* Lines 183-189: transversal CX onto the ancilla, bits_x, reset
xz_x_pass ==
    << Op2("cx", qubits_1, qubits_2),
       Op("measure", qubits_2),
       Op("reset", qubits_2) >>

xz_z_pass_reuse ==
    << Op("z", <<qubits_2[1]>>),
       Op2("cx", qubits_2, qubits_1),
       Op("h", qubits_2),
       Op("measure", qubits_2) >>

\* Lines 191-202: ancilla encoded again, transversal CX onto the data, bits_z
xz_z_pass ==
    color_code_factory(qubits_2)
    \o << Op("z", <<qubits_2[1]>>),
          Op2("cx", qubits_2, qubits_1),
          Op("h", qubits_2),
          Op("measure", qubits_2) >>

\* The branch of a ladder that is taken: one gate on data qubit j, or none
xz_correction(gate, j) ==
    IF j = -1 THEN <<>> ELSE <<Op(gate, <<qubits_1[j + 1]>>)>>

\* Line 245
xz_readout ==
    <<Op("measure", <<qubits_1[1], qubits_1[2], qubits_1[6]>>)>>

XZIdle ==
    /\ xz_pc = "idle"
    /\ xz_ops = <<>>
    /\ clean = ZeroRecord
    /\ fault_x = -1
    /\ fault_z = -1
    /\ bits_x = ZeroRecord
    /\ bits_z = ZeroRecord
    /\ bits_psi = <<0, 0, 0>>
    /\ frame_x = ZeroRecord
    /\ frame_z = ZeroRecord
    /\ brg = <<0, 0, 0>>

\* The encoded block before any fault: a clean record in both frames.
XZInit ==
    /\ xz_pc = "alloc"
    /\ xz_ops = xz_prologue
    /\ clean \in CleanRecords
    /\ fault_x = -1
    /\ fault_z = -1
    /\ bits_x = ZeroRecord
    /\ bits_z = ZeroRecord
    /\ bits_psi = <<0, 0, 0>>
    /\ frame_x = clean
    /\ frame_z = clean
    /\ brg = <<0, 0, 0>>

\* At most one X fault and one Z fault hit the data block, then both
\* ancilla records are taken (bits_x, bits_z).
XZMeasure ==
    /\ xz_pc = "alloc"
    /\ \E kx \in Faults, kz \in Faults :
          /\ fault_x' = kx
          /\ fault_z' = kz
          /\ frame_x' = Flip(frame_x, kx)
          /\ frame_z' = Flip(frame_z, kz)
          /\ bits_x' = Flip(frame_x, kx)
          /\ bits_z' = Flip(frame_z, kz)
    /\ xz_ops' = xz_ops \o xz_x_pass \o xz_z_pass
    /\ xz_pc' = "measured"
    /\ UNCHANGED <<clean, bits_psi, brg>>
    /\ UNCHANGED <<seVars, psVars, extVars>>

\* Lines 205-222: syndrome of bits_x, then the X ladder.
XCorrection ==
    /\ xz_pc = "measured"
    /\ LET syn == kernel_syndrome(bits_x)
           j == x_ladder(syn[1], syn[2], syn[3])
       IN  /\ brg' = syn
           /\ frame_x' = Flip(frame_x, j)
           /\ xz_ops' = xz_ops \o xz_correction("x", j)
    /\ xz_pc' = "x_done"
    /\ UNCHANGED <<clean, fault_x, fault_z, bits_x, bits_z, bits_psi, frame_z>>
    /\ UNCHANGED <<seVars, psVars, extVars>>

\* Lines 224-241: syndrome of bits_z, then the Z ladder.
ZCorrection ==
    /\ xz_pc = "x_done"
    /\ LET syn == kernel_syndrome(bits_z)
           j == z_ladder(syn[1], syn[2], syn[3])
       IN  /\ brg' = syn
           /\ frame_z' = Flip(frame_z, j)
           /\ xz_ops' = xz_ops \o xz_correction("z", j)
    /\ xz_pc' = "z_done"
    /\ UNCHANGED <<clean, fault_x, fault_z, bits_x, bits_z, bits_psi, frame_x>>
    /\ UNCHANGED <<seVars, psVars, extVars>>

\* Line 245: measure data qubits 0, 1, 5.
MeasurePsi ==
    /\ xz_pc = "z_done"
    /\ bits_psi' = <<At(frame_x, 0), At(frame_x, 1), At(frame_x, 5)>>
    /\ xz_ops' = xz_ops \o xz_readout
    /\ xz_pc' = "done"
    /\ UNCHANGED <<clean, fault_x, fault_z, bits_x, bits_z, frame_x, frame_z, brg>>
    /\ UNCHANGED <<seVars, psVars, extVars>>

(***************************************************************************)
(* furious_five.py: sample, logical_obs, syndromes, noise_free_mask,       *)
(* logical_error and post_select.  A 2-D array is a sequence of rows, one  *)
(* per shot; a 1-D array is a sequence over the shots.  A float that is a  *)
(* quotient of two counts is kept as the pair of counts.                   *)
(***************************************************************************)

NaN == [nan |-> TRUE, num |-> 0, den |-> 1]
Quot(num, den) == [nan |-> FALSE, num |-> num, den |-> den]

\* arr[:, lo:hi] with 0 <= lo <= hi <= width
Cols(arr, lo, hi) == [s \in 1..Len(arr) |-> SubSeq(arr[s], lo + 1, hi)]

\* arr[:, -7:] on rows of at least 7 columns
LastCols(arr) ==
    [s \in 1..Len(arr) |-> SubSeq(arr[s], Len(arr[s]) - 6, Len(arr[s]))]

sample_flipped(raw) ==
    [s \in 1..Len(raw) |-> [c \in 1..Len(raw[s]) |-> raw[s][c] * 2 - 1]]

\* circ.compile_sampler().sample(shots=shots) * (-2) + 1
sample(raw) ==
    [s \in 1..Len(raw) |-> [c \in 1..Len(raw[s]) |-> raw[s][c] * (-2) + 1]]

\* arr[:, 0] * arr[:, 1] * arr[:, 5]
logical_obs(arr) ==
    [s \in 1..Len(arr) |-> At(arr[s], 0) * At(arr[s], 1) * At(arr[s], 5)]

syndromes_brg(arr) ==
    <<[s \in 1..Len(arr) |->
          At(arr[s], 0) * At(arr[s], 1) * At(arr[s], 2) * At(arr[s], 3)],
      [s \in 1..Len(arr) |->
          At(arr[s], 6) * At(arr[s], 4) * At(arr[s], 2) * At(arr[s], 3)],
      [s \in 1..Len(arr) |->
          At(arr[s], 1) * At(arr[s], 5) * At(arr[s], 4) * At(arr[s], 2)]>>

syndromes(arr) ==
    <<[s \in 1..Len(arr) |->
          At(arr[s], 0) * At(arr[s], 1) * At(arr[s], 2) * At(arr[s], 3)],
      [s \in 1..Len(arr) |->
          At(arr[s], 1) * At(arr[s], 5) * At(arr[s], 4) * At(arr[s], 2)],
      [s \in 1..Len(arr) |->
          At(arr[s], 6) * At(arr[s], 4) * At(arr[s], 2) * At(arr[s], 3)]>>

noise_free_mask_positive(arr) ==
    LET syn == syndromes(arr)
    IN  [s \in 1..Len(arr) |-> syn[1][s] + syn[2][s] + syn[3][s] > 0]

\* syn[0] + syn[1] + syn[2] == 3
noise_free_mask(arr) ==
    LET syn == syndromes(arr)
    IN  [s \in 1..Len(arr) |-> syn[1][s] + syn[2][s] + syn[3][s] = 3]

\* (values != true_value).sum()
RECURSIVE CountNe(_, _)
CountNe(vals, true_value) ==
    IF vals = <<>> THEN 0
    ELSE (IF Head(vals) # true_value THEN 1 ELSE 0) + CountNe(Tail(vals), true_value)

logical_error_counts_equal(vals) ==
    IF Len(vals) = 0
    THEN NaN
    ELSE Quot(Len(vals) - CountNe(vals, 1), Len(vals))

\* if len(values) == 0: nan; else (values != true_value).sum() / len(values)
logical_error(vals) ==
    IF Len(vals) = 0
    THEN NaN
    ELSE Quot(CountNe(vals, 1), Len(vals))

BoolIndex_all(vals, mask) == vals

\* values[alive_mask]: the entries of a 1-D array where the mask is true
RECURSIVE BoolIndex(_, _)
BoolIndex(vals, mask) ==
    IF vals = <<>> THEN <<>>
    ELSE (IF Head(mask) THEN <<Head(vals)>> ELSE <<>>)
            \o BoolIndex(Tail(vals), Tail(mask))

CountTrue_len(mask) == Len(mask)

\* alive_mask.sum()
RECURSIVE CountTrue(_)
CountTrue(mask) ==
    IF mask = <<>> THEN 0
    ELSE (IF Head(mask) THEN 1 ELSE 0) + CountTrue(Tail(mask))

MaskAssign(a, b) == b

\* alive_mask &= mask
MaskAnd(a, b) == [s \in 1..Len(a) |-> a[s] /\ b[s]]

\* np.ones(shots, dtype=bool)
Ones(n) == [s \in 1..n |-> TRUE]

RECURSIVE alive_after_shifted(_, _)
alive_after_shifted(samp, n) ==
    IF n = 0 THEN Ones(Len(samp))
    ELSE MaskAnd(alive_after_shifted(samp, n - 1),
                 noise_free_mask(Cols(samp, 7 * n, 7 * (n + 1))))

\* alive_mask after the first n passes of the loop of post_select
RECURSIVE alive_after(_, _)
alive_after(samp, n) ==
    IF n = 0 THEN Ones(Len(samp))
    ELSE MaskAnd(alive_after(samp, n - 1),
                 noise_free_mask(Cols(samp, 7 * (n - 1), 7 * n)))

\* A slice samples[:, lo:hi] read as the data record or as an ancilla record
Read(use, lo, hi) == [use |-> use, lo |-> lo, hi |-> hi]

round_slice_next(i) == <<7 * (i + 1), 7 * (i + 2)>>

\* Line 449: the bounds of samples[:, 7 * i : 7 * (i + 1)]
round_slice(i) == <<7 * i, 7 * (i + 1)>>

\* Line 445: the bounds of samples[:, -7:] on rows of the given width
data_slice(width) == <<width - 7, width>>

\* The 7-bit records the sampler's rows are made of: no fault, the logical
\* flip, and one record failing each single plaquette.
SampleRecords ==
    { ZeroRecord,
      [n \in 1..n_sean_qubits |-> 1],
      Flip(ZeroRecord, 0),
      Flip(ZeroRecord, 5),
      Flip(ZeroRecord, 6) }

\* Rows of the sampler's output for a circuit with n rounds: the n ancilla
\* records in measurement order, then the data record.
RECURSIVE RawRows(_)
RawRows(n) ==
    IF n = 0 THEN {<<>>}
    ELSE {row \o rec : row \in RawRows(n - 1), rec \in SampleRecords}

PSIdle ==
    /\ ps_pc = "idle"
    /\ iterations = 0
    /\ shots = 0
    /\ samples = <<>>
    /\ values = <<>>
    /\ alive_mask = <<>>
    /\ ps_i = 0
    /\ alive_hist = <<>>
    /\ ps_reads = <<>>
    /\ ps_ret = <<NaN, NaN, NaN>>

\* Lines 443-447: build and sample the circuit, read the logical values,
\* start with every shot alive.
PostSelectEnter ==
    /\ ps_pc = "idle"
    /\ \E n \in 0..MaxIterations, sh \in 1..MaxShots :
          /\ sh * (n + 1) <= MaxRecords
          /\ \E raw \in [1..sh -> RawRows(n + 1)] :
                /\ iterations' = n
                /\ shots' = sh
                /\ samples' = sample(raw)
                /\ values' = logical_obs(LastCols(sample(raw)))
                /\ alive_mask' = Ones(sh)
                /\ ps_reads' = <<Read("data", data_slice(Len(raw[1]))[1],
                                       data_slice(Len(raw[1]))[2])>>
    /\ ps_i' = 0
    /\ alive_hist' = <<>>
    /\ ps_pc' = "loop"
    /\ UNCHANGED ps_ret
    /\ UNCHANGED <<seVars, xzVars, extVars>>

\* Lines 448-454: one pass of the loop body.
PostSelectRound ==
    /\ ps_pc = "loop"
    /\ ps_i < iterations
    /\ LET sl == round_slice(ps_i)
           synds == syndromes(Cols(samples, sl[1], sl[2]))
           mask == noise_free_mask(Cols(samples, sl[1], sl[2]))
       IN  /\ alive_mask' = MaskAnd(alive_mask, mask)
           /\ alive_hist' = Append(alive_hist, MaskAnd(alive_mask, mask))
           /\ ps_reads' = Append(ps_reads, Read("ancilla", sl[1], sl[2]))
    /\ ps_i' = ps_i + 1
    /\ UNCHANGED <<ps_pc, iterations, shots, samples, values, ps_ret>>
    /\ UNCHANGED <<seVars, xzVars, extVars>>

\* Lines 461-465: the returned triple.
PostSelectReturn ==
    /\ ps_pc = "loop"
    /\ ps_i = iterations
    /\ ps_ret' = <<logical_error(BoolIndex(values, alive_mask)),
                   logical_error(values),
                   Quot(CountTrue(alive_mask), shots)>>
    /\ ps_pc' = "returned"
    /\ UNCHANGED <<iterations, shots, samples, values, alive_mask, ps_i, alive_hist,
                   ps_reads>>
    /\ UNCHANGED <<seVars, xzVars, extVars>>

(***************************************************************************)
(* syndrome_evals.py called on arguments of the caller's choosing: a       *)
(* record and a reordering of the values of one plaquette, a group and a   *)
(* reordering of it, a record that is too short or holds a value other     *)
(* than 0 and 1.                                                           *)
(***************************************************************************)
\* The three index groups read by evaluate_syndromes and result_is_valid.
blue_indices == {0, 1, 2, 3}
red_indices == {2, 3, 4, 6}
green_indices == {1, 2, 4, 5}
PlaquetteIndices == {blue_indices, red_indices, green_indices}

Perms(S) == {f \in [S -> S] : \A a, b \in S : f[a] = f[b] => a = b}

\* rec with the values at the indices of P moved around by f
PermuteWithin(rec, P, f) ==
    [n \in 1..Len(rec) |-> IF (n - 1) \in P THEN At(rec, f[n - 1]) ELSE rec[n]]

Reorder(group, f) == [n \in 1..Len(group) |-> group[f[n]]]

BitLists(n) == UNION {[1..len -> Bit] : len \in 0..n}

\* Records a caller can pass: well formed, cut short, or with one entry
\* replaced by a value other than 0 and 1.
ShortRecords == {SubSeq(rec, 1, len) : rec \in Record7, len \in 0..(n_sean_qubits - 1)}
NonBinaryRecords ==
    {[rec EXCEPT ![n] = v] : rec \in Record7, n \in 1..n_sean_qubits, v \in 2..MaxValue}
PassedRecords == Record7 \cup ShortRecords \cup NonBinaryRecords

\* results[k] raises IndexError when k is not below len(results); the three
\* group lists read indices 0..6 before any parity is computed.
Call_evaluate_syndromes(res) ==
    IF Len(res) < 7
    THEN [raised |-> "IndexError", value |-> <<>>]
    ELSE [raised |-> "none", value |-> evaluate_syndromes(res)]

Call_result_is_valid(res) ==
    IF Len(res) < 7
    THEN [raised |-> "IndexError", value |-> FALSE]
    ELSE [raised |-> "none", value |-> result_is_valid(res)]

ArgIdle ==
    /\ arg_pc = "idle"
    /\ arg_record = <<>>
    /\ arg_plaquette = {}
    /\ arg_permuted = <<>>
    /\ arg_colors = <<0, 0, 0>>
    /\ arg_colors_perm = <<0, 0, 0>>
    /\ arg_group = <<>>
    /\ arg_group_perm = <<>>
    /\ arg_parity = 0
    /\ arg_parity_perm = 0
    /\ arg_eval = NoOutcome
    /\ arg_valid = NoOutcome

\* evaluate_syndromes on a record and on the same record with the values of
\* one plaquette permuted
CallOnPermuted ==
    /\ arg_pc = "idle"
    /\ \E rec \in Record7, P \in PlaquetteIndices :
          \E f \in Perms(P) :
             /\ arg_record' = rec
             /\ arg_plaquette' = P
             /\ arg_permuted' = PermuteWithin(rec, P, f)
             /\ arg_colors' = evaluate_syndromes(rec)
             /\ arg_colors_perm' = evaluate_syndromes(PermuteWithin(rec, P, f))
    /\ arg_pc' = "permuted"
    /\ UNCHANGED <<arg_group, arg_group_perm, arg_parity, arg_parity_perm,
                   arg_eval, arg_valid>>
    /\ UNCHANGED <<seVars, xzVars, psVars, ffVars, swVars, qecVars, auxVars>>

\* extract_syndrome on a group and on a reordering of it
CallExtractSyndrome ==
    /\ arg_pc = "idle"
    /\ \E group \in BitLists(MaxGroupLen) :
          \E f \in Perms(1..Len(group)) :
             /\ arg_group' = group
             /\ arg_group_perm' = Reorder(group, f)
             /\ arg_parity' = extract_syndrome(group)
             /\ arg_parity_perm' = extract_syndrome(Reorder(group, f))
    /\ arg_pc' = "extracted"
    /\ UNCHANGED <<arg_record, arg_plaquette, arg_permuted, arg_colors,
                   arg_colors_perm, arg_eval, arg_valid>>
    /\ UNCHANGED <<seVars, xzVars, psVars, ffVars, swVars, qecVars, auxVars>>

\* evaluate_syndromes and result_is_valid on whatever record is passed
CallOnPassedRecord ==
    /\ arg_pc = "idle"
    /\ \E rec \in PassedRecords :
          /\ arg_record' = rec
          /\ arg_eval' = Call_evaluate_syndromes(rec)
          /\ arg_valid' = Call_result_is_valid(rec)
    /\ arg_pc' = "passed"
    /\ UNCHANGED <<arg_plaquette, arg_permuted, arg_colors, arg_colors_perm,
                   arg_group, arg_group_perm, arg_parity, arg_parity_perm>>
    /\ UNCHANGED <<seVars, xzVars, psVars, ffVars, swVars, qecVars, auxVars>>

(***************************************************************************)
(* furious_five.py: sample, syndromes, noise_free_mask and logical_obs     *)
(* applied to one array of 7-column rows.                                  *)
(***************************************************************************)
FFIdle ==
    /\ ff_pc = "idle"
    /\ ff_raw = <<>>
    /\ ff_arr = <<>>
    /\ ff_synds = <<<<>>, <<>>, <<>>>>
    /\ ff_mask = <<>>
    /\ ff_values = <<>>

FFApply ==
    /\ ff_pc = "idle"
    /\ \E rows \in 1..MaxRows :
          \E raw \in [1..rows -> Record7] :
             /\ ff_raw' = raw
             /\ ff_arr' = sample(raw)
             /\ ff_synds' = syndromes(sample(raw))
             /\ ff_mask' = noise_free_mask(sample(raw))
             /\ ff_values' = logical_obs(sample(raw))
    /\ ff_pc' = "applied"
    /\ UNCHANGED <<seVars, xzVars, psVars, argVars, swVars, qecVars, auxVars>>

(***************************************************************************)
(* furious_five.py Part 4: the two sweep loops and the result tables.      *)
(* Noise strengths and scaling factors are written in thousandths          *)
(* (0.001 is 1, 0.2 is 200).  The loops run over the leading entries of    *)
(* the grids; every post_select call uses SweepShots shots.                *)
(***************************************************************************)
grid_iterations == <<1, 2, 3, 5, 8, 13, 21>>
grid_noise == <<0, 1, 5, 10, 20, 50, 100, 200>>
grid_nm_scaling == <<10, 20, 100, 200, 500>>

product_zip(a, la, b, lb) ==
    [k \in 1..(la * lb) |-> <<a[((k - 1) % la) + 1], b[((k - 1) % lb) + 1]>>]

\* itertools.product(a[:la], b[:lb]) as a list, first factor outermost
product(a, la, b, lb) ==
    [k \in 1..(la * lb) |-> <<a[((k - 1) \div lb) + 1], b[((k - 1) % lb) + 1]>>]

DepolCells == product(grid_iterations, IterationsGridLen, grid_noise, NoiseGridLen)
NmCells == product(grid_iterations, IterationsGridLen, grid_nm_scaling, ScalingGridLen)

\* A sampler row of n records, all equal to rec
RECURSIVE ConstRow(_, _)
ConstRow(rec, n) == IF n = 0 THEN <<>> ELSE ConstRow(rec, n - 1) \o rec

CleanSamples(n, sh) == [s \in 1..sh |-> ConstRow(ZeroRecord, n + 1)]

\* What the sampler can return for a circuit of n rounds and sh shots
SweepSamples(n, sh) == [1..sh -> {ConstRow(rec, n + 1) : rec \in SampleRecords}]

\* The triple post_select returns when the sampler returned raw
post_select(n, sh, raw) ==
    LET samp == sample(raw)
        vals == logical_obs(LastCols(samp))
        alive == alive_after(samp, n)
    IN  <<logical_error(BoolIndex(vals, alive)),
          logical_error(vals),
          Quot(CountTrue(alive), sh)>>

SWIdle ==
    /\ sw_pc = "depol"
    /\ sw_k = 0
    /\ depol_results = <<>>
    /\ nm_results = <<>>
    /\ sw_calls = <<>>
    /\ sw_faulty = 0
    /\ sw_raised = <<>>
    /\ depol_csv = <<>>
    /\ nm_csv = <<>>

\* Lines 499-504: one pass of the depolarizing loop, post_select returning.
DepolCell ==
    /\ sw_pc = "depol"
    /\ sw_k < Len(DepolCells)
    /\ LET cell == DepolCells[sw_k + 1]
       IN  \E raw \in SweepSamples(cell[1], SweepShots) :
             /\ raw # CleanSamples(cell[1], SweepShots) => sw_faulty < MaxFaultyCells
             /\ sw_faulty' = IF raw = CleanSamples(cell[1], SweepShots)
                             THEN sw_faulty ELSE sw_faulty + 1
             /\ sw_calls' = Append(sw_calls, <<"noise", cell[1], cell[2], SweepShots>>)
             /\ LET ret == post_select(cell[1], SweepShots, raw)
                IN  depol_results' =
                       Append(depol_results, <<cell[1], cell[2], ret[1], ret[2], ret[3]>>)
    /\ sw_k' = sw_k + 1
    /\ UNCHANGED <<sw_pc, nm_results, sw_raised, depol_csv, nm_csv>>
    /\ UNCHANGED <<seVars, xzVars, psVars, argVars, ffVars, qecVars, auxVars>>

\* Line 499 exhausted: print(), then the noise-model loop starts.
DepolLoopEnds ==
    /\ sw_pc = "depol"
    /\ sw_k = Len(DepolCells)
    /\ sw_pc' = "nm"
    /\ sw_k' = 0
    /\ UNCHANGED <<depol_results, nm_results, sw_calls, sw_faulty, sw_raised,
                   depol_csv, nm_csv>>
    /\ UNCHANGED <<seVars, xzVars, psVars, argVars, ffVars, qecVars, auxVars>>

\* Lines 510-516: one pass of the noise-model loop, post_select returning.
NmCell ==
    /\ sw_pc = "nm"
    /\ sw_k < Len(NmCells)
    /\ LET cell == NmCells[sw_k + 1]
       IN  \E raw \in SweepSamples(cell[1], SweepShots) :
             /\ raw # CleanSamples(cell[1], SweepShots) => sw_faulty < MaxFaultyCells
             /\ sw_faulty' = IF raw = CleanSamples(cell[1], SweepShots)
                             THEN sw_faulty ELSE sw_faulty + 1
             /\ sw_calls' = Append(sw_calls, <<"noise_model", cell[1], cell[2], SweepShots>>)
             /\ LET ret == post_select(cell[1], SweepShots, raw)
                IN  nm_results' =
                       Append(nm_results, <<cell[1], cell[2], ret[1], ret[2], ret[3]>>)
    /\ sw_k' = sw_k + 1
    /\ UNCHANGED <<sw_pc, depol_results, sw_raised, depol_csv, nm_csv>>
    /\ UNCHANGED <<seVars, xzVars, psVars, argVars, ffVars, qecVars, auxVars>>

NmLoopEnds ==
    /\ sw_pc = "nm"
    /\ sw_k = Len(NmCells)
    /\ sw_pc' = "frames"
    /\ UNCHANGED <<sw_k, depol_results, nm_results, sw_calls, sw_faulty,
                   sw_raised, depol_csv, nm_csv>>
    /\ UNCHANGED <<seVars, xzVars, psVars, argVars, ffVars, qecVars, auxVars>>

\* Building the circuit or sampling it raises inside post_select.  Neither
\* post_select nor the loops have a try statement: the exception leaves the
\* loop and the script, no row is appended, nothing after the loop runs.
CollaboratorRaises ==
    /\ sw_pc \in {"depol", "nm"}
    /\ sw_k < (IF sw_pc = "depol" THEN Len(DepolCells) ELSE Len(NmCells))
    /\ LET cell == IF sw_pc = "depol" THEN DepolCells[sw_k + 1] ELSE NmCells[sw_k + 1]
           kw == IF sw_pc = "depol" THEN "noise" ELSE "noise_model"
       IN  /\ sw_calls' = Append(sw_calls, <<kw, cell[1], cell[2], SweepShots>>)
           /\ sw_raised' = <<kw, cell[1], cell[2]>>
    /\ sw_pc' = "aborted"
    /\ UNCHANGED <<sw_k, depol_results, nm_results, sw_faulty, depol_csv, nm_csv>>
    /\ UNCHANGED <<seVars, xzVars, psVars, argVars, ffVars, qecVars, auxVars>>

\* Lines 524-546: the two DataFrames and their CSV files.
WriteFrames ==
    /\ sw_pc = "frames"
    /\ depol_csv' = depol_results
    /\ nm_csv' = nm_results
    /\ sw_pc' = "done"
    /\ UNCHANGED <<sw_k, depol_results, nm_results, sw_calls, sw_faulty, sw_raised>>
    /\ UNCHANGED <<seVars, xzVars, psVars, argVars, ffVars, qecVars, auxVars>>


(***************************************************************************)
(* furious_five.py Part 2: the kernels msd and qec, run on a stabilizer    *)
(* tableau as the stim sampler runs them.  A row of the tableau is a       *)
(* Pauli product: x and z are the sets of qubits carrying an X and a Z     *)
(* factor (both: Y), r = 1 is a minus sign.  Rows 1..14 are the            *)
(* destabilizers, rows 15..28 the stabilizers.  A kernel is the list of    *)
(* its operations in program order.                                        *)
(***************************************************************************)
NQ == 14
Qubits == 0..(NQ - 1)

Row(x, z, r) == [x |-> x, z |-> z, r |-> r]
Toggle(S, q) == IF q \in S THEN S \ {q} ELSE S \cup {q}
SymDiff(S, T) == (S \ T) \cup (T \ S)

\* q = squin.qalloc(14): every qubit in |0>
Qalloc ==
    [n \in 1..(2 * NQ) |->
        IF n <= NQ THEN Row({n - 1}, {}, 0) ELSE Row({}, {n - NQ - 1}, 0)]

\* Conjugation of one row by a gate (stim: SQRT_Y maps X to -Z and Z to X,
\* SQRT_Y_DAG maps X to Z and Z to -X).
RowH(p, q) ==
    Row(IF q \in p.z THEN p.x \cup {q} ELSE p.x \ {q},
        IF q \in p.x THEN p.z \cup {q} ELSE p.z \ {q},
        IF q \in p.x /\ q \in p.z THEN 1 - p.r ELSE p.r)

RowSqrtY(p, q) ==
    Row(IF q \in p.z THEN p.x \cup {q} ELSE p.x \ {q},
        IF q \in p.x THEN p.z \cup {q} ELSE p.z \ {q},
        IF q \in p.x /\ q \notin p.z THEN 1 - p.r ELSE p.r)

RowSqrtYAdj(p, q) ==
    Row(IF q \in p.z THEN p.x \cup {q} ELSE p.x \ {q},
        IF q \in p.x THEN p.z \cup {q} ELSE p.z \ {q},
        IF q \in p.z /\ q \notin p.x THEN 1 - p.r ELSE p.r)

RowX(p, q) == Row(p.x, p.z, IF q \in p.z THEN 1 - p.r ELSE p.r)
RowZ(p, q) == Row(p.x, p.z, IF q \in p.x THEN 1 - p.r ELSE p.r)
RowY(p, q) == Row(p.x, p.z, IF (q \in p.x) # (q \in p.z) THEN 1 - p.r ELSE p.r)

RowCZ(p, a, b) ==
    Row(p.x,
        LET za == IF b \in p.x THEN Toggle(p.z, a) ELSE p.z
        IN  IF a \in p.x THEN Toggle(za, b) ELSE za,
        IF a \in p.x /\ b \in p.x /\ ((a \in p.z) # (b \in p.z))
        THEN 1 - p.r ELSE p.r)

RowCX(p, c, t) ==
    Row(IF c \in p.x THEN Toggle(p.x, t) ELSE p.x,
        IF t \in p.z THEN Toggle(p.z, c) ELSE p.z,
        IF c \in p.x /\ t \in p.z /\ ((t \in p.x) = (c \in p.z))
        THEN 1 - p.r ELSE p.r)

\* Product of two rows, h times i, with the sign of the product
RowSum(h, i) ==
    LET plus == {q \in Qubits :
                   \/ q \in i.x /\ q \in i.z /\ q \in h.z /\ q \notin h.x
                   \/ q \in i.x /\ q \notin i.z /\ q \in h.z /\ q \in h.x
                   \/ q \notin i.x /\ q \in i.z /\ q \in h.x /\ q \notin h.z}
        minus == {q \in Qubits :
                   \/ q \in i.x /\ q \in i.z /\ q \in h.x /\ q \notin h.z
                   \/ q \in i.x /\ q \notin i.z /\ q \in h.z /\ q \notin h.x
                   \/ q \notin i.x /\ q \in i.z /\ q \in h.x /\ q \in h.z}
        e == (2 * h.r + 2 * i.r + Cardinality(plus) + 3 * Cardinality(minus)) % 4
    IN  Row(SymDiff(h.x, i.x), SymDiff(h.z, i.z), e \div 2)

\* One gate on the whole tableau
ApplyGate(tab, name, a, b) ==
    [n \in 1..(2 * NQ) |->
        CASE name = "h" -> RowH(tab[n], a)
          [] name = "sqrt_y" -> RowSqrtY(tab[n], a)
          [] name = "sqrt_y_adj" -> RowSqrtYAdj(tab[n], a)
          [] name = "x" -> RowX(tab[n], a)
          [] name = "y" -> RowY(tab[n], a)
          [] name = "z" -> RowZ(tab[n], a)
          [] name = "cz" -> RowCZ(tab[n], a, b)
          [] name = "cx" -> RowCX(tab[n], a, b)]

RECURSIVE ApplyBroadcast(_, _, _)
ApplyBroadcast(tab, o, k) ==
    IF k > Len(o.qs) THEN tab
    ELSE ApplyBroadcast(
             ApplyGate(tab, o.op, o.qs[k], IF o.ts = <<>> THEN 0 ELSE o.ts[k]),
             o, k + 1)

\* Sign of Z on qubit a when no stabilizer anticommutes with it: the product
\* of the stabilizers whose destabilizer has an X on a
RECURSIVE Determined(_, _, _, _)
Determined(tab, a, n, scratch) ==
    IF n > NQ THEN scratch.r
    ELSE Determined(tab, a, n + 1,
                    IF a \in tab[n].x THEN RowSum(scratch, tab[n + NQ]) ELSE scratch)

\* Measurement of qubit a in the Z basis: the possible (outcome, tableau)
MeasureQubit(tab, a) ==
    LET P == {n \in (NQ + 1)..(2 * NQ) : a \in tab[n].x}
    IN  IF P # {}
        THEN LET pr == CHOOSE n \in P : \A other \in P : n <= other
             IN  {[out |-> o,
                   tab |-> [n \in 1..(2 * NQ) |->
                              IF n = pr THEN Row({}, {a}, o)
                              ELSE IF n = pr - NQ THEN tab[pr]
                              ELSE IF a \in tab[n].x THEN RowSum(tab[n], tab[pr])
                              ELSE tab[n]]] : o \in Bit}
        ELSE {[out |-> Determined(tab, a, 1, Row({}, {}, 0)), tab |-> tab]}

\* A run of a kernel: the tableau, the measurement record so far, the
\* number of Pauli faults the noise channels have applied.
RECURSIVE MeasureFrom(_, _, _)
MeasureFrom(cfg, qs, k) ==
    IF k > Len(qs) THEN {cfg}
    ELSE UNION {MeasureFrom([cfg EXCEPT !.tab = m.tab, !.rec = Append(@, m.out)],
                            qs, k + 1) : m \in MeasureQubit(cfg.tab, qs[k])}

RECURSIVE ResetFrom(_, _, _)
ResetFrom(cfg, qs, k) ==
    IF k > Len(qs) THEN {cfg}
    ELSE UNION {ResetFrom([cfg EXCEPT !.tab = IF m.out = 1
                                              THEN ApplyGate(m.tab, "x", qs[k], 0)
                                              ELSE m.tab],
                          qs, k + 1) : m \in MeasureQubit(cfg.tab, qs[k])}

\* depolarize(p, qs): with p > 0 each qubit independently suffers X, Y, Z or
\* nothing; with p = 0 nothing happens.
RECURSIVE DepolarizeFrom(_, _, _, _)
DepolarizeFrom(cfg, prob, qs, k) ==
    IF k > Len(qs) THEN {cfg}
    ELSE DepolarizeFrom(cfg, prob, qs, k + 1) \cup
         (IF prob > 0 /\ cfg.nf < MaxFaults
          THEN UNION {DepolarizeFrom(
                          [cfg EXCEPT !.tab = ApplyGate(@, pauli, qs[k], 0),
                                      !.nf = @ + 1],
                          prob, qs, k + 1) : pauli \in {"x", "y", "z"}}
          ELSE {})

Step(cfg, o) ==
    CASE o.op = "measure" -> MeasureFrom(cfg, o.qs, 1)
      [] o.op = "reset" -> ResetFrom(cfg, o.qs, 1)
      [] o.op = "depolarize" -> DepolarizeFrom(cfg, o.p, o.qs, 1)
      [] o.op = "qalloc" -> {[cfg EXCEPT !.tab = Qalloc]}
      [] OTHER -> {[cfg EXCEPT !.tab = ApplyBroadcast(@, o, 1)]}

RECURSIVE Exec(_, _, _)
Exec(cfgs, ops, k) ==
    IF k > Len(ops) THEN cfgs
    ELSE Exec(UNION {Step(cfg, ops[k]) : cfg \in cfgs}, ops, k + 1)

\* Lines 342-355
msd(q, noise) ==
    << Op("sqrt_y_adj", Slice(q, 0, 6)),
       Op2("cz", <<q[2], q[4], q[6]>>, <<q[3], q[5], q[7]>>),
       Op("sqrt_y", <<q[7]>>),
       Op2("cz", <<q[1], q[3], q[5]>>, <<q[4], q[6], q[7]>>),
       Op("sqrt_y", Slice(q, 2, 7)),
       Op2("cz", <<q[1], q[3], q[5]>>, <<q[2], q[4], q[6]>>),
       Op("sqrt_y", <<q[2], q[3], q[5]>>) >>
    \o (IF noise > 0 THEN <<Noise("depolarize", noise, q)>> ELSE <<>>)

q_all == [n \in 1..NQ |-> n - 1]
q_data == Slice(q_all, 0, 7)
q_aux == Slice(q_all, 7, 14)

\* Lines 363-364
qec_prologue == <<Op("qalloc", q_all)>> \o msd(q_data, 0)

qec_round_measures_all(noise) ==
    (IF noise > 0 THEN <<Noise("depolarize", noise, q_data)>> ELSE <<>>)
    \o <<Op("h", <<q_all[14]>>)>>
    \o msd(q_aux, noise)
    \o <<Op2("cx", q_data, q_aux)>>
    \o <<Op("measure", q_all)>>
    \o <<Op("reset", q_aux)>>

qec_round_no_reset(noise) ==
    (IF noise > 0 THEN <<Noise("depolarize", noise, q_data)>> ELSE <<>>)
    \o <<Op("h", <<q_all[14]>>)>>
    \o msd(q_aux, noise)
    \o <<Op2("cx", q_data, q_aux)>>
    \o <<Op("measure", q_aux)>>

qec_round_cx_reversed(noise) ==
    (IF noise > 0 THEN <<Noise("depolarize", noise, q_data)>> ELSE <<>>)
    \o <<Op("h", <<q_all[14]>>)>>
    \o msd(q_aux, noise)
    \o <<Op2("cx", q_aux, q_data)>>
    \o <<Op("measure", q_aux)>>
    \o <<Op("reset", q_aux)>>

\* Lines 366-376: the body of the loop
qec_round(noise) ==
    (IF noise > 0 THEN <<Noise("depolarize", noise, q_data)>> ELSE <<>>)
    \o <<Op("h", <<q_all[14]>>)>>
    \o msd(q_aux, noise)
    \o <<Op2("cx", q_data, q_aux)>>
    \o <<Op("measure", q_aux)>>
    \o <<Op("reset", q_aux)>>

\* Line 378
qec_epilogue == <<Op("measure", q_data)>>

\* Values of the keyword argument noise: the default 0 and the 0.02 of the
\* call after post_select's definition, in thousandths
QecNoise == {0, 20}

QecIdle ==
    /\ qec_pc = "idle"
    /\ qec_iterations = 0
    /\ qec_noise = 0
    /\ qec_shots = 0
    /\ qec_shot = 0
    /\ qec_i = 0
    /\ qec_tab = Qalloc
    /\ qec_rec = <<>>
    /\ qec_nf = 0
    /\ qec_ops = <<>>
    /\ qec_raw = <<>>
    /\ qec_ret = <<NaN, NaN, NaN>>

QecInit ==
    /\ qec_pc = "call"
    /\ qec_iterations = 0
    /\ qec_noise = 0
    /\ qec_shots = 0
    /\ qec_shot = 0
    /\ qec_i = 0
    /\ qec_tab = Qalloc
    /\ qec_rec = <<>>
    /\ qec_nf = 0
    /\ qec_ops = <<>>
    /\ qec_raw = <<>>
    /\ qec_ret = <<NaN, NaN, NaN>>

\* post_select line 443: qec_factory(iterations=..., noise=...) with no
\* noise model, handed to the sampler for `shots` shots.
QecFactory ==
    /\ qec_pc = "call"
    /\ \E n \in 0..QecMaxIterations, noise \in QecNoise, sh \in 1..QecMaxShots :
          /\ sh * n <= QecMaxRounds
          /\ noise > 0 => sh * n <= QecMaxNoisyRounds
          /\ qec_iterations' = n
          /\ qec_noise' = noise
          /\ qec_shots' = sh
    /\ qec_pc' = "built"
    /\ UNCHANGED <<qec_shot, qec_i, qec_tab, qec_rec, qec_nf, qec_ops, qec_raw, qec_ret>>
    /\ UNCHANGED <<seVars, xzVars, psVars, argVars, ffVars, swVars, auxVars>>

\* Lines 363-364 at the start of a shot
QecPrologue ==
    /\ qec_pc = "built"
    /\ \E cfg \in Exec({[tab |-> qec_tab, rec |-> <<>>, nf |-> qec_nf]}, qec_prologue, 1) :
          /\ qec_tab' = cfg.tab
          /\ qec_rec' = cfg.rec
          /\ qec_nf' = cfg.nf
    /\ qec_ops' = qec_prologue
    /\ qec_i' = 0
    /\ qec_pc' = "loop"
    /\ UNCHANGED <<qec_iterations, qec_noise, qec_shots, qec_shot, qec_raw, qec_ret>>
    /\ UNCHANGED <<seVars, xzVars, psVars, argVars, ffVars, swVars, auxVars>>

\* Lines 366-376: one pass of the loop
QecRound ==
    /\ qec_pc = "loop"
    /\ qec_i < qec_iterations
    /\ \E cfg \in Exec({[tab |-> qec_tab, rec |-> qec_rec, nf |-> qec_nf]},
                       qec_round(qec_noise), 1) :
          /\ qec_tab' = cfg.tab
          /\ qec_rec' = cfg.rec
          /\ qec_nf' = cfg.nf
    /\ qec_ops' = qec_ops \o qec_round(qec_noise)
    /\ qec_i' = qec_i + 1
    /\ UNCHANGED <<qec_pc, qec_iterations, qec_noise, qec_shots, qec_shot, qec_raw, qec_ret>>
    /\ UNCHANGED <<seVars, xzVars, psVars, argVars, ffVars, swVars, auxVars>>

\* Line 378: the data block is measured and the shot's row is complete
QecEpilogue ==
    /\ qec_pc = "loop"
    /\ qec_i = qec_iterations
    /\ \E cfg \in Exec({[tab |-> qec_tab, rec |-> qec_rec, nf |-> qec_nf]},
                       qec_epilogue, 1) :
          /\ qec_tab' = cfg.tab
          /\ qec_rec' = <<>>
          /\ qec_nf' = cfg.nf
          /\ qec_raw' = Append(qec_raw, cfg.rec)
    /\ qec_ops' = qec_ops \o qec_epilogue
    /\ qec_shot' = qec_shot + 1
    /\ qec_pc' = IF qec_shot + 1 = qec_shots THEN "sampled" ELSE "built"
    /\ UNCHANGED <<qec_iterations, qec_noise, qec_shots, qec_i, qec_ret>>
    /\ UNCHANGED <<seVars, xzVars, psVars, argVars, ffVars, swVars, auxVars>>

\* post_select lines 445-465 on the sampled rows
QecPostSelect ==
    /\ qec_pc = "sampled"
    /\ qec_ret' = post_select(qec_iterations, qec_shots, qec_raw)
    /\ qec_pc' = "returned"
    /\ UNCHANGED <<qec_iterations, qec_noise, qec_shots, qec_shot, qec_i, qec_tab,
                   qec_rec, qec_nf, qec_ops, qec_raw>>
    /\ UNCHANGED <<seVars, xzVars, psVars, argVars, ffVars, swVars, auxVars>>

(***************************************************************************)
(* Two runs side by side.  post_select is run on two sampler outputs that  *)
(* agree on every ancilla record and may differ in the data record;        *)
(* result_is_valid is called on two records with the same three plaquette  *)
(* parities.                                                               *)
(***************************************************************************)
\* raw with the last 7 columns of row s replaced by data[s]
WithData(raw, data) ==
    [s \in 1..Len(raw) |-> SubSeq(raw[s], 1, Len(raw[s]) - 7) \o data[s]]

TwIdle ==
    /\ tw_pc = "idle"
    /\ tw_n = 0
    /\ tw_raw_a = <<>>
    /\ tw_raw_b = <<>>
    /\ tw_alive_a = <<>>
    /\ tw_alive_b = <<>>
    /\ tw_ret_a = <<NaN, NaN, NaN>>
    /\ tw_ret_b = <<NaN, NaN, NaN>>
    /\ tw_rec_a = <<>>
    /\ tw_rec_b = <<>>
    /\ tw_valid_a = TRUE
    /\ tw_valid_b = TRUE

\* post_select (lines 440-465) on the two sampler outputs
TwoTrials ==
    /\ tw_pc = "idle"
    /\ \E n \in 0..MaxIterations, sh \in 1..MaxShots :
          /\ sh * (n + 2) <= TwinMaxRecords
          /\ \E raw \in [1..sh -> RawRows(n + 1)], data \in [1..sh -> SampleRecords] :
                /\ tw_n' = n
                /\ tw_raw_a' = raw
                /\ tw_raw_b' = WithData(raw, data)
                /\ tw_alive_a' = alive_after(sample(raw), n)
                /\ tw_alive_b' = alive_after(sample(WithData(raw, data)), n)
                /\ tw_ret_a' = post_select(n, sh, raw)
                /\ tw_ret_b' = post_select(n, sh, WithData(raw, data))
    /\ tw_pc' = "trials"
    /\ UNCHANGED <<tw_rec_a, tw_rec_b, tw_valid_a, tw_valid_b>>
    /\ UNCHANGED <<seVars, xzVars, psVars, argVars, ffVars, swVars, qecVars, poiVars, cvVars,
                   nzVars, cmpVars>>

\* result_is_valid (lines 86-106) on two records of equal plaquette parities
TwoRecords ==
    /\ tw_pc = "idle"
    /\ \E rec_a, rec_b \in Record7 :
          /\ evaluate_syndromes(rec_a) = evaluate_syndromes(rec_b)
          /\ tw_rec_a' = rec_a
          /\ tw_rec_b' = rec_b
          /\ tw_valid_a' = result_is_valid(rec_a)
          /\ tw_valid_b' = result_is_valid(rec_b)
    /\ tw_pc' = "records"
    /\ UNCHANGED <<tw_n, tw_raw_a, tw_raw_b, tw_alive_a, tw_alive_b, tw_ret_a, tw_ret_b>>
    /\ UNCHANGED <<seVars, xzVars, psVars, argVars, ffVars, swVars, qecVars, poiVars, cvVars,
                   nzVars, cmpVars>>

(***************************************************************************)
(* pauley_x/manual_noise_injection.py.  A dict is a function from its keys *)
(* to its values and lives in poi_heap; a variable holding a dict holds    *)
(* its reference, so that two names of one object see each other's         *)
(* changes.  POI_CONFIG is the module's global, one per process, whatever  *)
(* the number of experiments that call the module.  Probabilities are in   *)
(* thousandths.  A kernel is written as the one operation of its body.     *)
(***************************************************************************)
\* The experiments running in the process
Experiments == {"A", "B"}
PoiLabels == {"prep", "cx"}

EmptyDict == [l \in {} |-> <<"none", 0>>]

\* The dicts callers pass to configure_poi
PoiConfigs ==
    { EmptyDict,
      [l \in {"prep"} |-> <<"depolarize", 10>>],
      [l \in {"prep"} |-> <<"qubit_loss", 50>>],
      [l \in {"prep"} |-> <<"bit_flip", 10>>],
      [l \in {"cx"} |-> <<"depolarize", 50>>],
      [l \in {"prep", "cx"} |->
          IF l = "prep" THEN <<"depolarize", 50>> ELSE <<"qubit_loss", 10>>] }

\* POI_CONFIG = config: the global names the caller's own dict
configure_poi_alias(heap, config) ==
    [heap |-> heap, POI_CONFIG |-> config]

\* Lines 6-8: POI_CONFIG = config.copy(), a new dict with the same items
configure_poi(heap, config) ==
    [heap |-> Append(heap, heap[config]), POI_CONFIG |-> Len(heap) + 1]

\* dict.get(label, default)
DictGet(dct, label, default) ==
    IF label \in DOMAIN dct THEN dct[label] ELSE default

\* Lines 17-34: the kernel built for the entry of label in the dict cfg
get_poi_kernel(cfg, label) ==
    LET config == DictGet(cfg, label, <<"none", 0>>)
        noise_type == config[1]
        prob == config[2]
    IN  IF noise_type = "depolarize"
        THEN [gate |-> "depolarize", p |-> prob]
        ELSE IF noise_type = "qubit_loss"
        THEN [gate |-> "qubit_loss", p |-> prob]
        ELSE [gate |-> "u3", p |-> 0]

NoKernel == [gate |-> "none", p |-> 0]

\* Line 4 at import; no experiment has called the module yet.
PoiIdle ==
    /\ poi_heap = <<EmptyDict>>
    /\ POI_CONFIG = 1
    /\ poi_pc = [e \in Experiments |-> "start"]
    /\ poi_arg = [e \in Experiments |-> 0]
    /\ poi_own = [e \in Experiments |-> EmptyDict]
    /\ poi_latest = EmptyDict
    /\ poi_seen = [e \in Experiments |-> EmptyDict]
    /\ poi_label = [e \in Experiments |-> ""]
    /\ poi_kernel = [e \in Experiments |-> NoKernel]
    /\ poi_calls = 0
    /\ poi_mutations = 0

\* An experiment builds a dict and calls configure_poi on it (lines 6-8).
ConfigurePoi ==
    /\ poi_calls < MaxConfigures
    /\ \E e \in Experiments, config \in PoiConfigs :
          /\ poi_pc[e] \in {"start", "configured"}
          /\ LET passed == Len(poi_heap) + 1
                 after == configure_poi(Append(poi_heap, config), passed)
             IN  /\ poi_heap' = after.heap
                 /\ POI_CONFIG' = after.POI_CONFIG
                 /\ poi_arg' = [poi_arg EXCEPT ![e] = passed]
          /\ poi_own' = [poi_own EXCEPT ![e] = config]
          /\ poi_latest' = config
          /\ poi_pc' = [poi_pc EXCEPT ![e] = "configured"]
    /\ poi_calls' = poi_calls + 1
    /\ UNCHANGED <<poi_seen, poi_label, poi_kernel, poi_mutations>>
    /\ UNCHANGED <<seVars, xzVars, psVars, argVars, ffVars, swVars, qecVars, twVars, cvVars,
                   nzVars, cmpVars>>

\* The caller changes, in place, the dict it passed to configure_poi.
MutateCallerDict ==
    /\ poi_mutations < MaxMutations
    /\ \E e \in Experiments, config \in PoiConfigs :
          /\ poi_pc[e] = "configured"
          /\ config # poi_heap[poi_arg[e]]
          /\ poi_heap' = [poi_heap EXCEPT ![poi_arg[e]] = config]
    /\ poi_mutations' = poi_mutations + 1
    /\ UNCHANGED <<POI_CONFIG, poi_pc, poi_arg, poi_own, poi_latest, poi_seen,
                   poi_label, poi_kernel, poi_calls>>
    /\ UNCHANGED <<seVars, xzVars, psVars, argVars, ffVars, swVars, qecVars, twVars, cvVars,
                   nzVars, cmpVars>>

\* An experiment that has configured asks for the kernel of a label
\* (lines 15-34).
GetPoiKernel ==
    /\ \E e \in Experiments, label \in PoiLabels :
          /\ poi_pc[e] = "configured"
          /\ poi_label' = [poi_label EXCEPT ![e] = label]
          /\ poi_kernel' =
                [poi_kernel EXCEPT ![e] = get_poi_kernel(poi_heap[POI_CONFIG], label)]
          /\ poi_seen' = [poi_seen EXCEPT ![e] = poi_latest]
          /\ poi_pc' = [poi_pc EXCEPT ![e] = "got"]
    /\ UNCHANGED <<poi_heap, POI_CONFIG, poi_arg, poi_own, poi_latest, poi_calls,
                   poi_mutations>>
    /\ UNCHANGED <<seVars, xzVars, psVars, argVars, ffVars, swVars, qecVars, twVars, cvVars,
                   nzVars, cmpVars>>

(***************************************************************************)
(* The two conventions side by side: every row of a 0/1 array goes through *)
(* evaluate_syndromes and result_is_valid of syndrome_evals.py, and the    *)
(* array goes through sample's conversion, syndromes, noise_free_mask,     *)
(* logical_obs and logical_error of furious_five.py.                       *)
(***************************************************************************)
\* syndrome_evals.py lines 89 and 100: the parity result_is_valid computes
\* for the logical observable
resultat_logical_observable(res) ==
    extract_syndrome(<<At(res, 0), At(res, 1), At(res, 5)>>)

CvIdle ==
    /\ cv_pc = "idle"
    /\ cv_raw = <<>>
    /\ cv_colors = <<>>
    /\ cv_valid = <<>>
    /\ cv_logical = <<>>
    /\ cv_arr = <<>>
    /\ cv_synds = <<<<>>, <<>>, <<>>>>
    /\ cv_mask = <<>>
    /\ cv_values = <<>>
    /\ cv_error = NaN

BothConventions ==
    /\ cv_pc = "idle"
    /\ \E rows \in 1..MaxRows :
          \E raw \in [1..rows -> Record7] :
             /\ cv_raw' = raw
             /\ cv_colors' = [s \in 1..rows |-> evaluate_syndromes(raw[s])]
             /\ cv_valid' = [s \in 1..rows |-> result_is_valid(raw[s])]
             /\ cv_logical' = [s \in 1..rows |-> resultat_logical_observable(raw[s])]
             /\ cv_arr' = sample(raw)
             /\ cv_synds' = syndromes(sample(raw))
             /\ cv_mask' = noise_free_mask(sample(raw))
             /\ cv_values' = logical_obs(sample(raw))
             /\ cv_error' = logical_error(logical_obs(sample(raw)))
    /\ cv_pc' = "applied"
    /\ UNCHANGED <<seVars, xzVars, psVars, argVars, ffVars, swVars, qecVars, twVars, poiVars,
                   nzVars, cmpVars>>

(***************************************************************************)
(* pauley_x/automated_noise_analysis/noise_injection.py:                   *)
(* _isolated_noise_model and compare_all_noise_types.  A noise model is    *)
(* written as the keyword arguments its class is called with; a default    *)
(* model as the values of its noise attributes.  Scaling factors are in    *)
(* thousandths.  compare_all_noise_types goes through the leading          *)
(* NoiseTypesLen entries of its list.                                      *)
(***************************************************************************)
\* Lines 206-235
noise_types ==
    <<
       "local_px", "local_py", "local_pz",
       "local_loss", "local_unaddressed_px", "local_unaddressed_py",
       "local_unaddressed_pz", "local_unaddressed_loss", "global_px",
       "global_py", "global_pz", "global_loss",
       "cz_paired_px", "cz_paired_py", "cz_paired_pz",
       "cz_paired_loss", "cz_unpaired_px", "cz_unpaired_py",
       "cz_unpaired_pz", "cz_unpaired_loss", "mover_px",
       "mover_py", "mover_pz", "mover_loss",
       "sitter_px", "sitter_py", "sitter_pz",
       "sitter_loss" >>

noise_param_map_flat == [t \in {noise_types[k] : k \in 1..Len(noise_types)} |-> "local_px"]

\* Lines 30-59
noise_param_map ==
    ("local_px" :> "local_px") @@
    ("local_py" :> "local_py") @@
    ("local_pz" :> "local_pz") @@
    ("local_loss" :> "local_loss_prob") @@
    ("global_px" :> "global_px") @@
    ("global_py" :> "global_py") @@
    ("global_pz" :> "global_pz") @@
    ("global_loss" :> "global_loss_prob") @@
    ("cz_paired_px" :> "cz_paired_gate_px") @@
    ("cz_paired_py" :> "cz_paired_gate_py") @@
    ("cz_paired_pz" :> "cz_paired_gate_pz") @@
    ("cz_paired_loss" :> "cz_gate_loss_prob") @@
    ("cz_unpaired_px" :> "cz_unpaired_gate_px") @@
    ("cz_unpaired_py" :> "cz_unpaired_gate_py") @@
    ("cz_unpaired_pz" :> "cz_unpaired_gate_pz") @@
    ("cz_unpaired_loss" :> "cz_unpaired_loss_prob") @@
    ("mover_px" :> "mover_px") @@
    ("mover_py" :> "mover_py") @@
    ("mover_pz" :> "mover_pz") @@
    ("mover_loss" :> "move_loss_prob") @@
    ("sitter_px" :> "sitter_px") @@
    ("sitter_py" :> "sitter_py") @@
    ("sitter_pz" :> "sitter_pz") @@
    ("sitter_loss" :> "sit_loss_prob") @@
    ("local_unaddressed_px" :> "local_unaddressed_px") @@
    ("local_unaddressed_py" :> "local_unaddressed_py") @@
    ("local_unaddressed_pz" :> "local_unaddressed_pz") @@
    ("local_unaddressed_loss" :> "local_unaddressed_loss_prob")

\* Lines 69-96: the keys initialised to 0.0
zeroed_params ==
    <<
       "local_px", "local_py", "local_pz",
       "local_loss_prob", "global_px", "global_py",
       "global_pz", "global_loss_prob", "cz_paired_gate_px",
       "cz_paired_gate_py", "cz_paired_gate_pz", "cz_gate_loss_prob",
       "cz_unpaired_gate_px", "cz_unpaired_gate_py", "cz_unpaired_gate_pz",
       "cz_unpaired_loss_prob", "mover_px", "mover_py",
       "mover_pz", "move_loss_prob", "sitter_px",
       "sitter_py", "sitter_pz", "sit_loss_prob",
       "local_unaddressed_px", "local_unaddressed_py", "local_unaddressed_pz",
       "local_unaddressed_loss_prob" >>

ZeroedParams == {zeroed_params[k] : k \in 1..Len(zeroed_params)}

\* Lines 67-97
zero_kwargs(scaling_factor) ==
    [p \in ZeroedParams \cup {"scaling_factor"} |->
        IF p = "scaling_factor" THEN scaling_factor ELSE 0]

\* d[k] = v on a dict
DictSet(dct, k, v) == [x \in DOMAIN dct \cup {k} |-> IF x = k THEN v ELSE dct[x]]

ModelClasses == {"GeminiOneZoneNoiseModel", "GeminiTwoZoneNoiseModel"}

\* model_class(): the noise attributes of the class's default model.  The
\* values stand for the library's constants: different for every attribute
\* and for the two classes.
default_model(model_class) ==
    [p \in ZeroedParams |->
        (CHOOSE k \in 1..Len(zeroed_params) : zeroed_params[k] = p)
            * (IF model_class = "GeminiOneZoneNoiseModel" THEN 2 ELSE 3)]

NoKwargs == [p \in {} |-> 0]

\* Lines 61-103
_isolated_noise_model(noise_type, scaling_factor, model_class) ==
    IF noise_type \notin DOMAIN noise_param_map
    THEN [raised |-> "ValueError", value |-> NoKwargs]
    ELSE LET param_name == noise_param_map[noise_type]
         IN  IF param_name \notin DOMAIN default_model(model_class)
             THEN [raised |-> "AttributeError", value |-> NoKwargs]
             ELSE [raised |-> "none",
                   value |-> DictSet(zero_kwargs(scaling_factor), param_name,
                                     default_model(model_class)[param_name]
                                        * scaling_factor)]

\* The values passed as noise_type: the documented keys, the name of a
\* parameter that is not a key, other strings
NoiseTypeInputs ==
    DOMAIN noise_param_map \cup {"local_loss_prob", "depolarize", ""}

ScalingFactors == {0, 500, 1000, 2000}

NzIdle ==
    /\ nz_pc = "idle"
    /\ nz_type = ""
    /\ nz_scaling = 1000
    /\ nz_class = "GeminiOneZoneNoiseModel"
    /\ nz_out = [raised |-> "none", value |-> NoKwargs]

CallIsolatedNoiseModel ==
    /\ nz_pc = "idle"
    /\ \E noise_type \in NoiseTypeInputs, scaling_factor \in ScalingFactors,
          model_class \in ModelClasses :
          /\ nz_type' = noise_type
          /\ nz_scaling' = scaling_factor
          /\ nz_class' = model_class
          /\ nz_out' = _isolated_noise_model(noise_type, scaling_factor, model_class)
    /\ nz_pc' = "called"
    /\ UNCHANGED cmpVars
    /\ UNCHANGED <<seVars, xzVars, psVars, argVars, ffVars, swVars, qecVars, twVars, poiVars,
                   cvVars>>

\* a < b for two quotients of counts
RateLess(a, b) == a.num * b.den < b.num * a.den

\* One item put into a list that is in increasing order of rate
RECURSIVE InsertAscending(_, _)
InsertAscending(item, items) ==
    IF items = <<>> THEN <<item>>
    ELSE IF RateLess(item[2], Head(items)[2])
    THEN <<item>> \o items
    ELSE <<Head(items)>> \o InsertAscending(item, Tail(items))

RECURSIVE sorted_ascending(_)
sorted_ascending(items) ==
    IF items = <<>> THEN <<>>
    ELSE InsertAscending(items[Len(items)], sorted_ascending(SubSeq(items, 1, Len(items) - 1)))

\* One item put into a list that is in decreasing order of rate, behind the
\* items of equal rate
RECURSIVE InsertDescending(_, _)
InsertDescending(item, items) ==
    IF items = <<>> THEN <<item>>
    ELSE IF RateLess(Head(items)[2], item[2])
    THEN <<item>> \o items
    ELSE <<Head(items)>> \o InsertDescending(item, Tail(items))

\* Line 249: sorted(results.items(), key=lambda x: x[1], reverse=True), a
\* stable sort; dict(...) keeps the order of the list
RECURSIVE sorted_results(_)
sorted_results(items) ==
    IF items = <<>> THEN <<>>
    ELSE InsertDescending(items[Len(items)], sorted_results(SubSeq(items, 1, Len(items) - 1)))

\* Lines 173-178: error_count / shots
error_rate(error_count, sh) ==
    IF sh = 0
    THEN [raised |-> "ZeroDivisionError", value |-> NaN]
    ELSE [raised |-> "none", value |-> Quot(error_count, sh)]

CmpIdle ==
    /\ cmp_pc = "idle"
    /\ cmp_shots = 0
    /\ cmp_k = 0
    /\ cmp_results = <<>>
    /\ cmp_log = <<>>
    /\ cmp_ret = <<>>

\* Line 237: compare_all_noise_types is entered
CompareEnter ==
    /\ cmp_pc = "idle"
    /\ \E sh \in 0..CompareShots : cmp_shots' = sh
    /\ cmp_pc' = "loop"
    /\ UNCHANGED <<cmp_k, cmp_results, cmp_log, cmp_ret>>
    /\ UNCHANGED nzVars
    /\ UNCHANGED <<seVars, xzVars, psVars, argVars, ffVars, swVars, qecVars, twVars, poiVars,
                   cvVars>>

\* Lines 240-244: test_individual_noise_type returns; error_count of the
\* noisy shots fell outside the clean histogram
TestReturns ==
    /\ cmp_pc = "loop"
    /\ cmp_k < NoiseTypesLen
    /\ LET noise_type == noise_types[cmp_k + 1]
       IN  /\ _isolated_noise_model(noise_type, 1000, "GeminiOneZoneNoiseModel").raised
                 = "none"
           /\ \E error_count \in 0..cmp_shots :
                 /\ error_rate(error_count, cmp_shots).raised = "none"
                 /\ cmp_results' =
                       Append(cmp_results,
                              <<noise_type, error_rate(error_count, cmp_shots).value>>)
    /\ cmp_log' = Append(cmp_log, "ok")
    /\ cmp_k' = cmp_k + 1
    /\ UNCHANGED <<cmp_pc, cmp_shots, cmp_ret>>
    /\ UNCHANGED nzVars
    /\ UNCHANGED <<seVars, xzVars, psVars, argVars, ffVars, swVars, qecVars, twVars, poiVars,
                   cvVars>>

\* Lines 245-246: test_individual_noise_type raises (the noise model, the
\* circuit transformation, the simulator or the division) and the except
\* clause prints the failure
TestRaises ==
    /\ cmp_pc = "loop"
    /\ cmp_k < NoiseTypesLen
    /\ cmp_log' = Append(cmp_log, "failed")
    /\ cmp_k' = cmp_k + 1
    /\ UNCHANGED <<cmp_pc, cmp_shots, cmp_results, cmp_ret>>
    /\ UNCHANGED nzVars
    /\ UNCHANGED <<seVars, xzVars, psVars, argVars, ffVars, swVars, qecVars, twVars, poiVars,
                   cvVars>>

\* Lines 249-250
CompareReturn ==
    /\ cmp_pc = "loop"
    /\ cmp_k = NoiseTypesLen
    /\ cmp_ret' = sorted_results(cmp_results)
    /\ cmp_pc' = "returned"
    /\ UNCHANGED <<cmp_shots, cmp_k, cmp_results, cmp_log>>
    /\ UNCHANGED nzVars
    /\ UNCHANGED <<seVars, xzVars, psVars, argVars, ffVars, swVars, qecVars, twVars, poiVars,
                   cvVars>>

AuxIdle == TwIdle /\ PoiIdle /\ CvIdle /\ NzIdle /\ CmpIdle

ExtIdle == ArgIdle /\ FFIdle /\ SWIdle /\ QecIdle /\ AuxIdle

(***************************************************************************)
(* Specifications.                                                         *)
(***************************************************************************)
InitSyn == SynInit /\ XZIdle /\ PSIdle /\ ExtIdle
NextSyn ==
    \/ CallEvaluateSyndromes
    \/ CallResultIsValid
    \/ CallEvaluateFaultyQubit
    \/ CallLookup
SpecSyn == InitSyn /\ [][NextSyn]_vars

InitXZ == results = ZeroRecord /\ SynIdle /\ XZInit /\ PSIdle /\ ExtIdle
NextXZ ==
    \/ XZMeasure
    \/ XCorrection
    \/ ZCorrection
    \/ MeasurePsi
SpecXZ == InitXZ /\ [][NextXZ]_vars

InitPS == results = ZeroRecord /\ SynIdle /\ XZIdle /\ PSIdle /\ ExtIdle
NextPS ==
    \/ PostSelectEnter
    \/ PostSelectRound
    \/ PostSelectReturn
SpecPS == InitPS /\ [][NextPS]_vars

InitArg == results = ZeroRecord /\ SynIdle /\ XZIdle /\ PSIdle /\ ExtIdle
NextArg ==
    \/ CallOnPermuted
    \/ CallExtractSyndrome
    \/ CallOnPassedRecord
SpecArg == InitArg /\ [][NextArg]_vars

InitFF == results = ZeroRecord /\ SynIdle /\ XZIdle /\ PSIdle /\ ExtIdle
NextFF ==
    \/ FFApply
SpecFF == InitFF /\ [][NextFF]_vars

InitSweep == results = ZeroRecord /\ SynIdle /\ XZIdle /\ PSIdle /\ ExtIdle
NextSweep ==
    \/ DepolCell
    \/ DepolLoopEnds
    \/ NmCell
    \/ NmLoopEnds
    \/ CollaboratorRaises
    \/ WriteFrames
SpecSweep == InitSweep /\ [][NextSweep]_vars

InitQec ==
    /\ results = ZeroRecord /\ SynIdle /\ XZIdle /\ PSIdle
    /\ ArgIdle /\ FFIdle /\ SWIdle /\ QecInit /\ AuxIdle
NextQec ==
    \/ QecFactory
    \/ QecPrologue
    \/ QecRound
    \/ QecEpilogue
    \/ QecPostSelect
SpecQec == InitQec /\ [][NextQec]_vars

\* The two kernels that extract syndromes with an ancilla block: a behaviour
\* runs xz_error_detection or a sampled qec.
InitKernels ==
    /\ results = ZeroRecord /\ SynIdle /\ PSIdle /\ ArgIdle /\ FFIdle /\ SWIdle
    /\ AuxIdle
    /\ \/ XZInit /\ QecIdle
       \/ XZIdle /\ QecInit
NextKernels ==
    \/ XZMeasure
    \/ XCorrection
    \/ ZCorrection
    \/ MeasurePsi
    \/ QecFactory
    \/ QecPrologue
    \/ QecRound
    \/ QecEpilogue
    \/ QecPostSelect
SpecKernels == InitKernels /\ [][NextKernels]_vars

InitTwin == results = ZeroRecord /\ SynIdle /\ XZIdle /\ PSIdle /\ ExtIdle
NextTwin ==
    \/ TwoTrials
    \/ TwoRecords
SpecTwin == InitTwin /\ [][NextTwin]_vars

InitPoi == results = ZeroRecord /\ SynIdle /\ XZIdle /\ PSIdle /\ ExtIdle
NextPoi ==
    \/ ConfigurePoi
    \/ MutateCallerDict
    \/ GetPoiKernel
SpecPoi == InitPoi /\ [][NextPoi]_vars

InitConv == results = ZeroRecord /\ SynIdle /\ XZIdle /\ PSIdle /\ ExtIdle
NextConv ==
    \/ BothConventions
SpecConv == InitConv /\ [][NextConv]_vars

InitIsolated == results = ZeroRecord /\ SynIdle /\ XZIdle /\ PSIdle /\ ExtIdle
NextIsolated ==
    \/ CallIsolatedNoiseModel
SpecIsolated == InitIsolated /\ [][NextIsolated]_vars

InitCompare == results = ZeroRecord /\ SynIdle /\ XZIdle /\ PSIdle /\ ExtIdle
NextCompare ==
    \/ CompareEnter
    \/ TestReturns
    \/ TestRaises
    \/ CompareReturn
SpecCompare == InitCompare /\ [][NextCompare]_vars

(***************************************************************************)
(* Claims.                                                                 *)
(***************************************************************************)

\* str() of a syndrome bit, and the table key of a (blue, red, green) triple.
Digit(b) == IF b = 0 THEN "0" ELSE "1"
SyndromeStr(t) == Digit(t[1]) \o Digit(t[2]) \o Digit(t[3])

BitStrings3 == {a \o b \o c : a \in {"0", "1"}, b \in {"0", "1"}, c \in {"0", "1"}}

\* The table of section 4.2 of the specification.
SpecTable(k) ==
    CASE k = "000" -> -1
      [] k = "100" -> 0
      [] k = "101" -> 1
      [] k = "111" -> 2
      [] k = "110" -> 3
      [] k = "011" -> 4
      [] k = "001" -> 5
      [] k = "010" -> 6

\* The record that is zero except for a 1 at index k.
Unit(k) == Flip(ZeroRecord, k)

\* Parity of bits 0, 1, 5: the logical observable of a record.
LogicalParity(rec) == (At(rec, 0) + At(rec, 1) + At(rec, 5)) % 2

\* C1: FAULTY_QUBIT_MAP has exactly the 8 three-character bit strings as
\* keys; "000" is the only key that maps to -1; the 7 other keys map
\* one-to-one onto 0..6 with the values of the specification's table; and a
\* lookup of any of the 8 keys returns the table's value.
C1_FaultTable ==
    /\ DOMAIN FAULTY_QUBIT_MAP = BitStrings3
    /\ Cardinality(DOMAIN FAULTY_QUBIT_MAP) = 8
    /\ {k \in DOMAIN FAULTY_QUBIT_MAP : FAULTY_QUBIT_MAP[k] = -1} = {"000"}
    /\ {FAULTY_QUBIT_MAP[k] : k \in DOMAIN FAULTY_QUBIT_MAP \ {"000"}} = 0..6
    /\ \A k1, k2 \in DOMAIN FAULTY_QUBIT_MAP \ {"000"} :
          FAULTY_QUBIT_MAP[k1] = FAULTY_QUBIT_MAP[k2] => k1 = k2
    /\ \A k \in BitStrings3 : FAULTY_QUBIT_MAP[k] = SpecTable(k)
    /\ (se_pc = "lookup" /\ key[1] \o key[2] \o key[3] \in BitStrings3)
          => faulty = [raised |-> "none",
                       value |-> SpecTable(key[1] \o key[2] \o key[3])]

C1_Witness ==
    /\ se_pc = "lookup"
    /\ key = <<"1", "1", "0">>
    /\ faulty = [raised |-> "none", value |-> 3]

\* C2: for every k in 0..6 the record with a single 1 at index k has, under
\* evaluate_syndromes, a syndrome whose FAULTY_QUBIT_MAP entry is k; the
\* flip at index 0 gives the syndrome (1,0,0).
C2_SingleFlipDecodes ==
    (se_pc # "idle" /\ se_pc # "lookup") =>
        /\ \A k \in 0..6 :
              results = Unit(k) => FAULTY_QUBIT_MAP[SyndromeStr(colors)] = k
        /\ results = Unit(0) => colors = <<1, 0, 0>>

C2_Witness ==
    /\ se_pc = "syndromes"
    /\ results = Unit(0)
    /\ colors = <<1, 0, 0>>
    /\ FAULTY_QUBIT_MAP[SyndromeStr(colors)] = 0

\* C3: round trip of a single fault.  For a clean record (syndrome 000) and
\* a flip of any one bit k, the pass computes the syndrome of the flipped
\* record, applies its correction on the qubit j the fault table gives for
\* that syndrome, and the corrected record has the logical observable
\* (parity of bits 0, 1, 5) of the clean record.  It holds for the X pass
\* and for the Z pass.
C3_RoundTrip ==
    /\ xz_pc \in {"x_done", "z_done", "done"} =>
          /\ x_ladder(kernel_syndrome(bits_x)[1], kernel_syndrome(bits_x)[2],
                      kernel_syndrome(bits_x)[3])
                = FAULTY_QUBIT_MAP[SyndromeStr(evaluate_syndromes(bits_x))]
          /\ LogicalParity(frame_x) = LogicalParity(clean)
    /\ xz_pc \in {"z_done", "done"} =>
          /\ z_ladder(kernel_syndrome(bits_z)[1], kernel_syndrome(bits_z)[2],
                      kernel_syndrome(bits_z)[3])
                = FAULTY_QUBIT_MAP[SyndromeStr(evaluate_syndromes(bits_z))]
          /\ LogicalParity(frame_z) = LogicalParity(clean)
    /\ xz_pc = "done" => extract_syndrome(bits_psi) = LogicalParity(clean)

C3_Witness ==
    /\ xz_pc = "done"
    /\ fault_x = 1
    /\ fault_z = 5
    /\ bits_x # clean
    /\ LogicalParity(bits_x) # LogicalParity(clean)
    /\ LogicalParity(bits_z) # LogicalParity(clean)
    /\ frame_x = clean
    /\ frame_z = clean

\* C4: decode never fails on a real syndrome: evaluate_faulty_qubit applied
\* to the triple evaluate_syndromes returns gives the FAULTY_QUBIT_MAP entry
\* of that triple, and it fails, with InvalidSyndromeError, only on an input
\* that is not one of the 8 valid three-bit strings.
C4_DecodeOfSyndromes ==
    /\ se_pc = "decoded" =>
          faulty = [raised |-> "none",
                    value |-> FAULTY_QUBIT_MAP[SyndromeStr(colors)]]
    /\ se_pc = "lookup" =>
          (faulty.raised # "none" <=> key[1] \o key[2] \o key[3] \notin BitStrings3)

\* C5: result_is_valid(record) is true iff evaluate_syndromes(record) is
\* (0,0,0); it is false as soon as one of blue, red, green is 1.
C5_ValidIffZeroSyndrome ==
    se_pc \in {"valid", "decoded"} =>
        /\ is_valid <=> colors = <<0, 0, 0>>
        /\ (\E g \in 1..3 : colors[g] = 1) => ~is_valid
        /\ colors = evaluate_syndromes(results)

C5_Witness ==
    /\ se_pc = "valid"
    /\ colors = <<0, 0, 1>>
    /\ ~is_valid

\* The plaquettes of furious_five.syndromes, as sets of column indices.
Plaquettes == {{0, 1, 2, 3}, {1, 2, 4, 5}, {2, 3, 4, 6}}

\* Shot s's ancilla record of round r (r = 0, 1, ...) has all three
\* syndromes passing: an even number of -1 outcomes in every plaquette.
RoundValid(s, r) ==
    \A g \in Plaquettes :
        Cardinality({q \in g : samples[s][7 * r + q + 1] = -1}) % 2 = 0

\* Shot s's logical observable differs from the expected value +1: an odd
\* number of -1 outcomes among data qubits 0, 1, 5 of the last record.
LogicalWrong(s) ==
    Cardinality({q \in {0, 1, 5} : samples[s][7 * iterations + q + 1] = -1}) % 2 = 1

Alive == {s \in 1..shots : alive_mask[s]}

\* The sample matrix of the run with the first m rounds only: the first m
\* ancilla records of every shot, then its data record.
Truncate(samp, m) ==
    [s \in 1..Len(samp) |->
        SubSeq(samp[s], 1, 7 * m) \o SubSeq(samp[s], Len(samp[s]) - 6, Len(samp[s]))]

\* C6: in post_select, a shot whose alive_mask is false after round i has it
\* false after round i+1 and at the end of the trial.
C6_AliveMonotone ==
    \A i \in 1..Len(alive_hist), s \in 1..shots :
        ~alive_hist[i][s] =>
            /\ \A j \in i..Len(alive_hist) : ~alive_hist[j][s]
            /\ ~alive_mask[s]

C6_Witness ==
    /\ ps_pc = "returned"
    /\ iterations = 3
    /\ \E s \in 1..shots :
          /\ ~alive_hist[1][s]
          /\ RoundValid(s, 1)
          /\ RoundValid(s, 2)
          /\ ~alive_mask[s]

\* C7: every shot's alive_mask is true before the first round, and after n
\* rounds it is the conjunction of the n per-round validity bits: true iff
\* every round's ancilla record had all three syndromes passing.
C7_AliveIsConjunction ==
    ps_pc \in {"loop", "returned"} =>
        /\ Len(alive_mask) = shots
        /\ ps_i = 0 => \A s \in 1..shots : alive_mask[s]
        /\ \A s \in 1..shots :
              alive_mask[s] <=> \A r \in 0..(ps_i - 1) : RoundValid(s, r)

C7_Witness ==
    /\ ps_pc = "returned"
    /\ iterations = 2
    /\ \E s1, s2 \in 1..shots :
          /\ RoundValid(s1, 0) /\ ~RoundValid(s1, 1) /\ ~alive_mask[s1]
          /\ RoundValid(s2, 0) /\ RoundValid(s2, 1) /\ alive_mask[s2]

\* C8: the returned logical error rate is (surviving shots whose logical
\* observable differs from the expected value) / (surviving shots), and is
\* not-a-number exactly when no shot survives.
C8_LogicalErrorRate ==
    ps_pc = "returned" =>
        /\ ps_ret[1].nan <=> Alive = {}
        /\ Alive # {} =>
              ps_ret[1] = Quot(Cardinality({s \in Alive : LogicalWrong(s)}),
                               Cardinality(Alive))

C8_Witness ==
    /\ ps_pc = "returned"
    /\ shots = 3
    /\ Cardinality(Alive) = 2
    /\ \E s \in 1..shots : ~alive_mask[s] /\ LogicalWrong(s)
    /\ ps_ret[1] = Quot(1, 2)

\* C9: the returned survival rate is (shots whose alive_mask is true after
\* all rounds) / shots, lies between 0 and 1, and is never larger than the
\* survival rate of the run on the same records with fewer rounds.
C9_SurvivalRate ==
    ps_pc = "returned" =>
        /\ ps_ret[3] = Quot(Cardinality(Alive), shots)
        /\ ~ps_ret[3].nan
        /\ 0 <= ps_ret[3].num /\ ps_ret[3].num <= ps_ret[3].den
        /\ ps_ret[3].den > 0
        /\ \A m \in 0..(iterations - 1) :
              LET fewer == Quot(CountTrue(alive_after(Truncate(samples, m), m)), shots)
              IN  ps_ret[3].num * fewer.den <= fewer.num * ps_ret[3].den

C9_Witness ==
    /\ ps_pc = "returned"
    /\ iterations = 2
    /\ shots = 2
    /\ ps_ret[3] = Quot(1, 2)
    /\ CountTrue(alive_after(Truncate(samples, 1), 1)) = 2

\* C10: the returned physical error rate is (all shots whose logical
\* observable differs from the expected value) / shots, whatever the rounds'
\* syndromes and the alive_mask are.
C10_PhysicalErrorRate ==
    ps_pc = "returned" =>
        ps_ret[2] = Quot(Cardinality({s \in 1..shots : LogicalWrong(s)}), shots)

C10_Witness ==
    /\ ps_pc = "returned"
    /\ shots = 2
    /\ Alive = {1}
    /\ ~LogicalWrong(1)
    /\ LogicalWrong(2)
    /\ ps_ret[2] = Quot(1, 2)
    /\ ps_ret[1] = Quot(0, 1)

\* Parity of the bits of rec at the indices of P.
ParityAt(rec, P) == Cardinality({k \in P : At(rec, k) = 1}) % 2

\* The -1/+1 image of a parity bit.
Sign(b) == 1 - 2 * b

\* C17 as stated: every syndrome operation returns the three plaquette checks
\* in the order (blue, red, green): evaluate_syndromes returns (parity of
\* 0,1,2,3; parity of 2,3,4,6; parity of 1,2,4,5) and syndromes of
\* furious_five returns its three plaquette products in that same order.
C17_SameGroupOrder ==
    ff_pc = "applied" =>
        \A s \in 1..Len(ff_raw) :
            LET syn == evaluate_syndromes(ff_raw[s])
            IN  /\ syn = <<ParityAt(ff_raw[s], blue_indices),
                           ParityAt(ff_raw[s], red_indices),
                           ParityAt(ff_raw[s], green_indices)>>
                /\ \A g \in 1..3 : ff_synds[g][s] = Sign(syn[g])

\* C17, amended: each syndrome operation returns its three plaquette checks
\* in a fixed order, but not the same one: evaluate_syndromes returns (blue,
\* red, green) = (parity of 0,1,2,3; of 2,3,4,6; of 1,2,4,5), and syndromes
\* of furious_five returns the products in the order (blue, green, red) =
\* (0,1,2,3; 1,2,4,5; 2,3,4,6).
C17_GroupOrders ==
    ff_pc = "applied" =>
        \A s \in 1..Len(ff_raw) :
            LET syn == evaluate_syndromes(ff_raw[s])
            IN  /\ syn = <<ParityAt(ff_raw[s], blue_indices),
                           ParityAt(ff_raw[s], red_indices),
                           ParityAt(ff_raw[s], green_indices)>>
                /\ ff_synds[1][s] = Sign(syn[1])
                /\ ff_synds[2][s] = Sign(syn[3])
                /\ ff_synds[3][s] = Sign(syn[2])

C17_Witness ==
    /\ ff_pc = "applied"
    /\ ff_raw = <<Unit(5)>>
    /\ evaluate_syndromes(ff_raw[1]) = <<0, 0, 1>>
    /\ ff_synds = <<<<1>>, <<-1>>, <<1>>>>

\* Position of a plaquette's check in the tuple of evaluate_syndromes.
CheckOf(P) == IF P = blue_indices THEN 1 ELSE IF P = red_indices THEN 2 ELSE 3

Ones1(group) == Cardinality({n \in 1..Len(group) : group[n] = 1})

Malformed(rec) == Len(rec) < 7 \/ \E n \in 1..Len(rec) : rec[n] \notin Bit

\* C18 as stated: for every record of length 7 and each plaquette, permuting
\* the bit values among that plaquette's four positions leaves the whole
\* tuple (blue, red, green) of evaluate_syndromes unchanged.
C18_WholeSyndromeInvariant ==
    arg_pc = "permuted" => arg_colors_perm = arg_colors

\* C18, amended: for every record of length 7 and each plaquette, permuting
\* the bit values among that plaquette's four positions leaves that
\* plaquette's own check unchanged; the checks of the two other plaquettes,
\* which share positions with it, may change.
C18_OwnCheckInvariant ==
    arg_pc = "permuted" =>
        /\ arg_colors_perm[CheckOf(arg_plaquette)] = arg_colors[CheckOf(arg_plaquette)]
        /\ \A n \in 1..7 : (n - 1) \notin arg_plaquette => arg_permuted[n] = arg_record[n]

C18_Witness ==
    /\ arg_pc = "permuted"
    /\ arg_record = Unit(0)
    /\ arg_plaquette = blue_indices
    /\ arg_permuted = Unit(2)
    /\ arg_colors = <<1, 0, 0>>
    /\ arg_colors_perm = <<1, 1, 1>>

\* C19: extract_syndrome returns the sum of the group's bits modulo 2: the
\* result is 0 or 1, it is 1 exactly when the group holds an odd number of
\* 1s, and it is the same for every ordering of the group's bits.
C19_ParityOfGroup ==
    arg_pc = "extracted" =>
        /\ arg_parity \in {0, 1}
        /\ arg_parity = 1 <=> Ones1(arg_group) % 2 = 1
        /\ arg_parity_perm = arg_parity

C19_Witness ==
    /\ arg_pc = "extracted"
    /\ arg_group = <<1, 1, 0, 1>>
    /\ arg_group_perm = <<0, 1, 1, 1>>
    /\ arg_parity = 1
    /\ arg_parity_perm = 1

\* C20: evaluate_syndromes and result_is_valid on a malformed record (too
\* short to have index 6, or holding a value other than 0 and 1) raise; they
\* never return a syndrome or a verdict.
C20_MalformedRaises ==
    (arg_pc = "passed" /\ Malformed(arg_record)) =>
        /\ arg_eval.raised # "none"
        /\ arg_valid.raised # "none"

\* The rows of the table a post_select call reports to.
TableOf(kw) == IF kw = "noise" THEN depol_results ELSE nm_results

\* C11: a failure of the execution collaborator in one post_select call
\* never aborts the sweep: the failure is reported, the loop goes on, and
\* when the sweep is done every cell of both grids after the failed one
\* has its row.
C11_FailureNeverAborts ==
    /\ sw_raised # <<>> => sw_pc # "aborted"
    /\ sw_pc = "done" =>
          /\ Len(depol_results) = Len(DepolCells)
          /\ Len(nm_results) = Len(NmCells)

\* C12: every discarded shot is removed from the denominators of the
\* survival rate and the logical error rate, and the count of failed shots
\* is recorded alongside the row: the cell whose call failed has a row with
\* a failure count of at least 1 whose survival rate is taken over the
\* shots that did return a record.
C12_FailedShotsAccounted ==
    sw_raised # <<>> =>
        \E n \in 1..Len(TableOf(sw_raised[1])) :
            LET row == TableOf(sw_raised[1])[n]
            IN  /\ row[1] = sw_raised[2]
                /\ row[2] = sw_raised[3]
                /\ Len(row) = 6
                /\ row[6] >= 1
                /\ row[5].den = SweepShots - row[6]

\* The r-th 7-bit record (r = 1, 2, ...) of a sampler row.
RecordOf(row, r) == SubSeq(row, 7 * (r - 1) + 1, 7 * r)

\* C16: with noise exactly 0 and no noise model, for every number of rounds
\* and shots, no noise operation is in the circuit, every round's ancilla
\* record of every shot is valid, every shot's logical observable has its
\* expected value, and post_select returns logical error exactly 0 and
\* survival rate exactly 1.
C16_NoiseFreeIsPerfect ==
    qec_noise = 0 =>
        /\ \A k \in 1..Len(qec_ops) : qec_ops[k].op # "depolarize"
        /\ qec_nf = 0
        /\ \A s \in 1..Len(qec_raw) :
              /\ \A r \in 1..qec_iterations :
                    evaluate_syndromes(RecordOf(qec_raw[s], r)) = <<0, 0, 0>>
              /\ LogicalParity(RecordOf(qec_raw[s], qec_iterations + 1)) = 0
        /\ qec_pc = "returned" =>
              /\ qec_ret[1] = Quot(0, qec_shots)
              /\ qec_ret[2] = Quot(0, qec_shots)
              /\ qec_ret[3] = Quot(qec_shots, qec_shots)

C16_Witness ==
    /\ qec_pc = "returned"
    /\ qec_noise = 0
    /\ qec_iterations = 2
    /\ qec_shots = 1
    /\ Len(qec_raw[1]) = 21
    /\ RecordOf(qec_raw[1], 1) # RecordOf(qec_raw[1], 2)
    /\ qec_ret = <<Quot(0, 1), Quot(0, 1), Quot(1, 1)>>

\* Qubits an operation acts on; the data block is qubits 0..6 and the
\* ancilla block qubits 7..13 in both kernels.
QsOf(o) == {o.qs[k] : k \in 1..Len(o.qs)} \cup {o.ts[k] : k \in 1..Len(o.ts)}
DataBlock == 0..6
AuxBlock == 7..13
MeasuresAux(o) == o.op = "measure" /\ QsOf(o) \subseteq AuxBlock
MeasuresData(o) == o.op = "measure" /\ QsOf(o) \cap DataBlock # {}
AuxMeasurements(ops) == {k \in 1..Len(ops) : MeasuresAux(ops[k])}

\* In a kernel of `rounds` ancilla measurements every measurement is of
\* ancilla qubits only, except one of data qubits only, which is the last
\* operation and comes after all the ancilla measurements.
DataMeasuredLast(ops, rounds) ==
    \A k \in 1..Len(ops) :
        ops[k].op = "measure" =>
            \/ MeasuresAux(ops[k])
            \/ /\ QsOf(ops[k]) \subseteq DataBlock
               /\ k = Len(ops)
               /\ Cardinality(AuxMeasurements(ops)) = rounds

\* C13: the data block is measured only once, after the last round: in qec
\* (any number of iterations) and in xz_error_detection no data qubit is
\* measured before all the ancilla measurements have been made, and every
\* per-round measurement is of ancilla qubits only.
C13_DataMeasuredOnceAtEnd ==
    /\ DataMeasuredLast(qec_ops, qec_iterations)
    /\ DataMeasuredLast(xz_ops, 2)
    /\ qec_pc \in {"sampled", "returned"} =>
          /\ MeasuresData(qec_ops[Len(qec_ops)])
          /\ QsOf(qec_ops[Len(qec_ops)]) = DataBlock
    /\ xz_pc = "done" =>
          /\ MeasuresData(xz_ops[Len(xz_ops)])
          /\ QsOf(xz_ops[Len(xz_ops)]) = {0, 1, 5}

C13_Witness ==
    /\ qec_pc = "sampled"
    /\ qec_iterations = 2
    /\ Cardinality(AuxMeasurements(qec_ops)) = 2
    /\ MeasuresData(qec_ops[Len(qec_ops)])
    /\ Len(qec_raw[1]) = 21

\* After an ancilla qubit is measured, nothing but a reset acts on it until
\* it has been reset.
ResetBeforeReuse(ops) ==
    \A k \in AuxMeasurements(ops) : \A q \in QsOf(ops[k]) :
        \A j \in (k + 1)..Len(ops) :
            (q \in QsOf(ops[j]) /\ ops[j].op # "reset") =>
                \E m \in (k + 1)..(j - 1) : ops[m].op = "reset" /\ q \in QsOf(ops[m])

\* C14: an ancilla is never reused in its measured state: in qec each
\* measurement of q[7:14] is followed by a reset of q[7:14] before the next
\* round prepares the ancilla, and in xz_error_detection the ancilla is
\* reset after the X-pass measurement and before it is encoded again for
\* the Z pass.
C14_AncillaResetBeforeReuse ==
    /\ ResetBeforeReuse(qec_ops)
    /\ \A k \in AuxMeasurements(qec_ops) :
          /\ k < Len(qec_ops)
          /\ qec_ops[k + 1] = Op("reset", qec_ops[k].qs)
    /\ ResetBeforeReuse(xz_ops)
    /\ \A k \in AuxMeasurements(xz_ops) :
          (\E j \in (k + 1)..Len(xz_ops) : QsOf(xz_ops[j]) \cap AuxBlock # {}) =>
              xz_ops[k + 1] = Op("reset", xz_ops[k].qs)

C14_Witness ==
    /\ xz_pc = "done"
    /\ Cardinality(AuxMeasurements(xz_ops)) = 2
    /\ \E k \in AuxMeasurements(xz_ops) :
          /\ xz_ops[k + 1].op = "reset"
          /\ xz_ops[k + 2].op = "sqrt_y_adj"
          /\ QsOf(xz_ops[k + 2]) \subseteq AuxBlock

\* Single-qubit X or Z gates on the data block after position k
Corrections(ops, gate, k) ==
    {j \in (k + 1)..Len(ops) :
        ops[j].op = gate /\ Len(ops[j].qs) = 1 /\ QsOf(ops[j]) \subseteq DataBlock}

\* C15: in xz_error_detection the X pass uses the first ancilla interaction
\* (data onto ancilla) and the Z pass a second, freshly prepared one (ancilla
\* reset and encoded again, then ancilla onto data); the X correction is
\* the one decoded from bits_x and the Z correction the one decoded from
\* bits_z; both are applied before data qubits 0, 1, 5 are measured and no
\* correction follows that measurement.
C15_TwoPassesThenReadout ==
    xz_pc \in {"measured", "x_done", "z_done", "done"} =>
        LET aux == AuxMeasurements(xz_ops)
            k1 == CHOOSE k \in aux : \A other \in aux : k <= other
            k2 == CHOOSE k \in aux : \A other \in aux : k >= other
        IN  /\ Cardinality(aux) = 2
            /\ k1 < k2
            /\ xz_ops[k1 - 1] = Op2("cx", qubits_1, qubits_2)
            /\ xz_ops[k1 + 1] = Op("reset", qubits_2)
            /\ k1 + 14 < k2
            /\ SubSeq(xz_ops, k1 + 2, k1 + 14) = color_code_factory(qubits_2)
            /\ \E c \in (k1 + 15)..(k2 - 1) : xz_ops[c] = Op2("cx", qubits_2, qubits_1)
            /\ \A j \in (k1 + 1)..(k2 - 1) : xz_ops[j] # Op2("cx", qubits_1, qubits_2)
            /\ LET xs == Corrections(xz_ops, "x", k2)
                   zs == Corrections(xz_ops, "z", k2)
                   jx == x_ladder(kernel_syndrome(bits_x)[1], kernel_syndrome(bits_x)[2],
                                  kernel_syndrome(bits_x)[3])
                   jz == z_ladder(kernel_syndrome(bits_z)[1], kernel_syndrome(bits_z)[2],
                                  kernel_syndrome(bits_z)[3])
               IN  /\ \A a \in xs, b \in zs : a < b
                   /\ \A a \in xs \cup zs, d \in 1..Len(xz_ops) :
                         MeasuresData(xz_ops[d]) => a < d
                   /\ xz_pc \in {"x_done", "z_done", "done"} =>
                         {xz_ops[a].qs[1] : a \in xs} = {jx} \ {-1}
                   /\ xz_pc \in {"z_done", "done"} =>
                         {xz_ops[b].qs[1] : b \in zs} = {jz} \ {-1}
                   /\ xz_pc = "done" =>
                         /\ xz_ops[Len(xz_ops)] = Op("measure", <<0, 1, 5>>)
                         /\ \A d \in 1..(Len(xz_ops) - 1) : ~MeasuresData(xz_ops[d])

C15_Witness ==
    /\ xz_pc = "done"
    /\ fault_x = 2
    /\ fault_z = 4
    /\ xz_ops[Len(xz_ops) - 2] = Op("x", <<2>>)
    /\ xz_ops[Len(xz_ops) - 1] = Op("z", <<4>>)
    /\ xz_ops[Len(xz_ops)] = Op("measure", <<0, 1, 5>>)

(***************************************************************************)
(* C21: the survival verdict does not depend on the data block.  Two       *)
(* trials of post_select whose sampler rows agree on every ancilla record  *)
(* end with the same alive_mask and return the same survival rate,         *)
(* whatever their data records are; two records with the same three        *)
(* plaquette parities get the same result_is_valid, whatever the parity    *)
(* of their bits 0, 1, 5.                                                  *)
(***************************************************************************)
C21_VerdictIgnoresData ==
    /\ tw_pc = "trials" =>
          /\ tw_alive_a = tw_alive_b
          /\ tw_ret_a[3] = tw_ret_b[3]
    /\ tw_pc = "records" => tw_valid_a = tw_valid_b

\* A shot that survives two rounds in both trials while its two data records
\* differ in their logical value.
C21_Witness ==
    /\ tw_pc = "trials"
    /\ tw_n = 2
    /\ Len(tw_raw_a) = 1
    /\ tw_alive_a = <<TRUE>>
    /\ LogicalParity(SubSeq(tw_raw_a[1], 15, 21))
          # LogicalParity(SubSeq(tw_raw_b[1], 15, 21))

\* Two valid records of opposite logical parity.
C21_RecordsWitness ==
    /\ tw_pc = "records"
    /\ tw_valid_a
    /\ LogicalParity(tw_rec_a) # LogicalParity(tw_rec_b)

\* The cells of the grid a[:la] x b[:lb], as a set.
Grid(a, la, b, lb) == {<<a[i], b[j]>> : i \in 1..la, j \in 1..lb}

\* The post_select calls made so far with the given keyword, in order.
CallsOf(kw) == SelectSeq(sw_calls, LAMBDA c : c[1] = kw)

\* One table against its grid: the k-th row is the row of the k-th call, it
\* has the five entries (rounds, parameter, three rates over the shots), its
\* cell is in the grid and no two rows or calls are for the same cell.
OneRowPerCell(table, kw, grid) ==
    LET calls == CallsOf(kw)
    IN  /\ Len(table) <= Len(calls)
        /\ \A k \in 1..Len(calls) :
              /\ <<calls[k][2], calls[k][3]>> \in grid
              /\ \A j \in 1..Len(calls) :
                    (calls[j][2] = calls[k][2] /\ calls[j][3] = calls[k][3]) => j = k
        /\ \A k \in 1..Len(table) :
              /\ Len(table[k]) = 5
              /\ table[k][1] = calls[k][2]
              /\ table[k][2] = calls[k][3]
              /\ table[k][4].den = SweepShots
              /\ table[k][5].den = SweepShots

\* table' is table with rows appended
Extends(old, new) ==
    /\ Len(new) >= Len(old)
    /\ \A k \in 1..Len(old) : new[k] = old[k]

KernelFor(cfg, label) ==
    IF label \notin DOMAIN cfg THEN [gate |-> "u3", p |-> 0]
    ELSE IF cfg[label][1] \in {"depolarize", "qubit_loss"}
    THEN [gate |-> cfg[label][1], p |-> cfg[label][2]]
    ELSE [gate |-> "u3", p |-> 0]

(***************************************************************************)
(* C23: concurrent experiments share no mutable state: the kernel an       *)
(* experiment gets from get_poi_kernel for a label is the one prescribed   *)
(* by the configuration that experiment itself passed to configure_poi,    *)
(* whatever configure_poi calls of another experiment come in between.     *)
(***************************************************************************)
C23_OwnConfigurationDecides ==
    \A e \in Experiments :
        poi_pc[e] = "got" => poi_kernel[e] = KernelFor(poi_own[e], poi_label[e])

(***************************************************************************)
(* C28: after any sequence of configure_poi calls, get_poi_kernel(label)   *)
(* is decided by the dict of the most recent call as it was when passed:   *)
(* an entry (depolarize, p) gives the depolarize kernel with p, an entry   *)
(* (qubit_loss, p) the qubit_loss kernel with p, a label without entry in  *)
(* that dict (also when an earlier dict had one) or with another noise     *)
(* type gives the identity kernel; changing the passed dict afterwards     *)
(* changes nothing.                                                        *)
(***************************************************************************)
C28_LatestConfigurationDecides ==
    \A e \in Experiments :
        poi_pc[e] = "got" => poi_kernel[e] = KernelFor(poi_seen[e], poi_label[e])

\* An experiment configured an entry for prep, then configured a dict
\* without it, changed that dict in place to hold a depolarize entry for
\* prep again, and still got the identity kernel for prep.
C28_Witness ==
    \E e \in Experiments :
        /\ poi_pc[e] = "got"
        /\ poi_label[e] = "prep"
        /\ poi_calls >= 2
        /\ "prep" \in DOMAIN poi_heap[3]
        /\ "prep" \notin DOMAIN poi_seen[e]
        /\ poi_mutations = 1
        /\ "prep" \in DOMAIN poi_heap[poi_arg[e]]
        /\ poi_heap[poi_arg[e]]["prep"][1] = "depolarize"
        /\ poi_kernel[e] = [gate |-> "u3", p |-> 0]

(***************************************************************************)
(* C24: the all-zero 7-bit record has syndrome (0,0,0), is valid under     *)
(* result_is_valid and has logical observable 0; in the -1/+1 convention   *)
(* its three syndromes are +1, noise_free_mask is true and logical_obs is  *)
(* +1, the value logical_error expects: an array of all-zero records has   *)
(* logical error rate 0.                                                   *)
(***************************************************************************)
C24_AllZeroRecord ==
    cv_pc = "applied" =>
        /\ \A s \in 1..Len(cv_raw) :
              cv_raw[s] = ZeroRecord =>
                  /\ cv_colors[s] = <<0, 0, 0>>
                  /\ cv_valid[s]
                  /\ cv_logical[s] = 0
                  /\ cv_arr[s] = [c \in 1..7 |-> 1]
                  /\ \A g \in 1..3 : cv_synds[g][s] = 1
                  /\ cv_mask[s]
                  /\ cv_values[s] = 1
        /\ (\A s \in 1..Len(cv_raw) : cv_raw[s] = ZeroRecord) =>
              cv_error = Quot(0, Len(cv_raw))

C24_Witness ==
    /\ cv_pc = "applied"
    /\ cv_raw = <<ZeroRecord>>
    /\ cv_valid = <<TRUE>>
    /\ cv_mask = <<TRUE>>
    /\ cv_values = <<1>>
    /\ cv_error = Quot(0, 1)

(***************************************************************************)
(* C26: the -1/+1 post-selection of furious_five and the 0/1               *)
(* post-selection of syndrome_evals are the same predicate.  For every     *)
(* 7-bit record b and a = 1 - 2b: noise_free_mask(a) is true iff           *)
(* result_is_valid(b) is; each plaquette product of a is +1 iff the parity *)
(* of the same plaquette of b is 0 (furious_five lists blue, green, red,   *)
(* syndrome_evals blue, red, green); logical_obs(a) is +1 iff the parity   *)
(* of bits 0, 1, 5 of b is 0.                                              *)
(***************************************************************************)
C26_SamePredicate ==
    cv_pc = "applied" =>
        \A s \in 1..Len(cv_raw) :
            /\ cv_arr[s] = [c \in 1..7 |-> 1 - 2 * cv_raw[s][c]]
            /\ cv_mask[s] <=> cv_valid[s]
            /\ cv_synds[1][s] = 1 <=> cv_colors[s][1] = 0
            /\ cv_synds[2][s] = 1 <=> cv_colors[s][3] = 0
            /\ cv_synds[3][s] = 1 <=> cv_colors[s][2] = 0
            /\ cv_synds[1][s] \in {-1, 1}
            /\ cv_synds[2][s] \in {-1, 1}
            /\ cv_synds[3][s] \in {-1, 1}
            /\ cv_values[s] = 1 <=> cv_logical[s] = 0
            /\ cv_values[s] \in {-1, 1}

\* A record that fails exactly one plaquette and has odd logical parity:
\* both conventions reject it.
C26_Witness ==
    /\ cv_pc = "applied"
    /\ cv_raw = <<Flip(ZeroRecord, 5)>>
    /\ cv_colors = <<<<0, 0, 1>>>>
    /\ cv_synds = <<<<1>>, <<-1>>, <<1>>>>
    /\ cv_valid = <<FALSE>>
    /\ cv_mask = <<FALSE>>
    /\ cv_values = <<-1>>

\* The branches of a ladder whose test holds for the syndrome t
Matching(branches, t) ==
    {k \in 1..Len(branches) :
        branches[k][1] = t[1] /\ branches[k][2] = t[2] /\ branches[k][3] = t[3]}

Syndromes3 == {<<b, r, g>> : b \in Bit, r \in Bit, g \in Bit}

\* A ladder against the fault table on all eight syndromes: no branch holds
\* for 000, exactly one holds for every other syndrome, and its gate is on
\* the qubit the table gives.
LadderIsTable(branches) ==
    \A t \in Syndromes3 :
        /\ Cardinality(Matching(branches, t)) = (IF t = <<0, 0, 0>> THEN 0 ELSE 1)
        /\ \A k \in Matching(branches, t) :
              branches[k][4] = FAULTY_QUBIT_MAP[SyndromeStr(t)]

(***************************************************************************)
(* C25: the two if/elif ladders of xz_error_detection agree with the fault *)
(* table on every input.  The tests of a ladder are mutually exclusive and *)
(* cover the seven non-zero syndromes; for each of the eight syndromes the *)
(* X pass and the Z pass apply no gate when it is 000 and otherwise        *)
(* exactly one single-qubit gate, on data qubit FAULTY_QUBIT_MAP[syndrome];*)
(* in every run the gates found in the kernel after the ancilla            *)
(* measurements are those.                                                 *)
(***************************************************************************)
C25_LaddersAgreeWithTable ==
    /\ LadderIsTable(x_branches)
    /\ LadderIsTable(z_branches)
    /\ \A t \in Syndromes3 :
          /\ x_ladder(t[1], t[2], t[3]) = FAULTY_QUBIT_MAP[SyndromeStr(t)]
          /\ z_ladder(t[1], t[2], t[3]) = FAULTY_QUBIT_MAP[SyndromeStr(t)]
    /\ xz_pc \in {"x_done", "z_done", "done"} =>
          LET aux == AuxMeasurements(xz_ops)
              last == CHOOSE k \in aux : \A other \in aux : k >= other
              xs == Corrections(xz_ops, "x", last)
              want == FAULTY_QUBIT_MAP[SyndromeStr(kernel_syndrome(bits_x))]
          IN  /\ aux # {}
              /\ Cardinality(xs) = (IF want = -1 THEN 0 ELSE 1)
              /\ \A a \in xs : xz_ops[a] = Op("x", <<want>>)
    /\ xz_pc \in {"z_done", "done"} =>
          LET aux == AuxMeasurements(xz_ops)
              last == CHOOSE k \in aux : \A other \in aux : k >= other
              zs == Corrections(xz_ops, "z", last)
              want == FAULTY_QUBIT_MAP[SyndromeStr(kernel_syndrome(bits_z))]
          IN  /\ aux # {}
              /\ Cardinality(zs) = (IF want = -1 THEN 0 ELSE 1)
              /\ \A a \in zs : xz_ops[a] = Op("z", <<want>>)

\* The last branch of the X ladder is taken (syndrome 010, gate on qubit 6)
\* and no branch of the Z ladder (syndrome 000, no gate).
C25_Witness ==
    /\ xz_pc = "z_done"
    /\ kernel_syndrome(bits_x) = <<0, 1, 0>>
    /\ kernel_syndrome(bits_z) = <<0, 0, 0>>
    /\ xz_ops[Len(xz_ops)] = Op("x", <<6>>)

\* The columns of a read, as a set of 0-based column indices
ColumnsOf(rd) == rd.lo..(rd.hi - 1)

(***************************************************************************)
(* C27: in post_select with n iterations over a sample matrix of 7*(n+1)   *)
(* columns, the logical observable reads exactly the last 7 columns and    *)
(* round i (i = 1..n) reads exactly columns 7(i-1) .. 7i-1 as its ancilla  *)
(* record: the rounds' records are read once each, in measurement order,   *)
(* and no column is read both as an ancilla record and as the data record. *)
(* The values computed are those of the columns read.                      *)
(***************************************************************************)
C27_ColumnsRead ==
    ps_pc \in {"loop", "returned"} =>
        /\ \A s \in 1..shots : Len(samples[s]) = 7 * (iterations + 1)
        /\ Len(ps_reads) = ps_i + 1
        /\ ps_reads[1].use = "data"
        /\ ColumnsOf(ps_reads[1]) = (7 * iterations)..(7 * iterations + 6)
        /\ \A i \in 1..ps_i :
              /\ ps_reads[i + 1].use = "ancilla"
              /\ ColumnsOf(ps_reads[i + 1]) = (7 * (i - 1))..(7 * i - 1)
              /\ ColumnsOf(ps_reads[i + 1]) \cap ColumnsOf(ps_reads[1]) = {}
              /\ \A j \in 1..ps_i :
                    j # i => ColumnsOf(ps_reads[i + 1]) \cap ColumnsOf(ps_reads[j + 1]) = {}
        /\ ps_pc = "returned" =>
              /\ ps_i = iterations
              /\ UNION {ColumnsOf(ps_reads[k]) : k \in 1..Len(ps_reads)}
                    = 0..(7 * (iterations + 1) - 1)
        /\ \A s \in 1..shots :
              /\ values[s] # 1 <=> LogicalWrong(s)
              /\ \A i \in 1..ps_i :
                    alive_hist[i][s] <=> \A r \in 0..(i - 1) : RoundValid(s, r)

\* Three rounds were read; the shot's second ancilla record alone is faulty
\* and its data record has the logical flip.
C27_Witness ==
    /\ ps_pc = "returned"
    /\ iterations = 3
    /\ shots = 1
    /\ Len(ps_reads) = 4
    /\ RoundValid(1, 0) /\ ~RoundValid(1, 1) /\ RoundValid(1, 2)
    /\ alive_hist = <<<<TRUE>>, <<FALSE>>, <<FALSE>>>>
    /\ values = <<-1>>

\* The entries of noise_types gone through so far whose line in the log is w
Logged(w) ==
    SelectSeq([k \in 1..cmp_k |-> <<noise_types[k], cmp_log[k]>>],
              LAMBDA e : e[2] = w)

KeysOf(items) == [k \in 1..Len(items) |-> items[k][1]]

(***************************************************************************)
(* C29: compare_all_noise_types isolates per-type failures and ranks the   *)
(* rest.  Every entry of the list is tested, whatever happened to the      *)
(* entries before it; a type whose test raised has no entry in the result, *)
(* every type whose test returned has exactly one, with the rate the test  *)
(* returned; the returned mapping enumerates its entries in non-increasing *)
(* order of error rate; each of the 28 listed types is accepted by         *)
(* _isolated_noise_model.                                                  *)
(***************************************************************************)
C29_FailuresIsolatedThenRanked ==
    /\ Len(noise_types) = 28
    /\ \A j, k \in 1..Len(noise_types) : noise_types[j] = noise_types[k] => j = k
    /\ \A k \in 1..Len(noise_types), c \in ModelClasses :
          _isolated_noise_model(noise_types[k], 1000, c).raised = "none"
    /\ cmp_pc \in {"loop", "returned"} =>
          /\ Len(cmp_log) = cmp_k
          /\ KeysOf(cmp_results) = KeysOf(Logged("ok"))
          /\ \A k \in 1..Len(Logged("failed")), j \in 1..Len(cmp_results) :
                cmp_results[j][1] # Logged("failed")[k][1]
    /\ cmp_pc = "returned" =>
          /\ cmp_k = NoiseTypesLen
          /\ Len(cmp_ret) = Len(cmp_results)
          /\ \A j \in 1..Len(cmp_results) :
                Cardinality({k \in 1..Len(cmp_ret) : cmp_ret[k] = cmp_results[j]}) = 1
          /\ \A j, k \in 1..Len(cmp_ret) :
                j < k => ~RateLess(cmp_ret[j][2], cmp_ret[k][2])

\* The first type's test raised, the three after it returned rates 0, 1/2
\* and 1, and the ranking lists them in the opposite order.
C29_Witness ==
    /\ cmp_pc = "returned"
    /\ cmp_log = <<"failed", "ok", "ok", "ok">>
    /\ cmp_results = << <<"local_py", Quot(0, 2)>>, <<"local_pz", Quot(1, 2)>>,
                        <<"local_loss", Quot(2, 2)>> >>
    /\ cmp_ret = << <<"local_loss", Quot(2, 2)>>, <<"local_pz", Quot(1, 2)>>,
                    <<"local_py", Quot(0, 2)>> >>

(***************************************************************************)
(* C30: _isolated_noise_model enables only the requested noise type.  For  *)
(* each of the 28 keys of noise_param_map the model is built with that     *)
(* type's parameter set to the default model's value times scaling_factor  *)
(* and the 27 other noise parameters set to 0; different types enable      *)
(* different parameters; the keyword arguments are the 28 zero-initialised *)
(* parameters and scaling_factor, nothing else; for any other noise_type   *)
(* the call raises ValueError and builds no model.                         *)
(***************************************************************************)
C30_OnlyRequestedTypeEnabled ==
    /\ Cardinality(DOMAIN noise_param_map) = 28
    /\ Cardinality(ZeroedParams) = 28
    /\ \A t1, t2 \in DOMAIN noise_param_map :
          noise_param_map[t1] = noise_param_map[t2] => t1 = t2
    /\ nz_pc = "called" =>
          IF nz_type \in DOMAIN noise_param_map
          THEN /\ nz_out.raised = "none"
               /\ DOMAIN nz_out.value = ZeroedParams \cup {"scaling_factor"}
               /\ nz_out.value["scaling_factor"] = nz_scaling
               /\ noise_param_map[nz_type] \in ZeroedParams
               /\ \A p \in ZeroedParams :
                     nz_out.value[p] =
                        IF p = noise_param_map[nz_type]
                        THEN default_model(nz_class)[p] * nz_scaling
                        ELSE 0
          ELSE /\ nz_out.raised = "ValueError"
               /\ nz_out.value = NoKwargs

\* cz_paired_loss on the two-zone model with scaling factor 2: only
\* cz_gate_loss_prob is enabled, at twice its default value.
C30_Witness ==
    /\ nz_pc = "called"
    /\ nz_type = "cz_paired_loss"
    /\ nz_class = "GeminiTwoZoneNoiseModel"
    /\ nz_scaling = 2000
    /\ nz_out.raised = "none"
    /\ nz_out.value["cz_gate_loss_prob"]
          = 2000 * default_model("GeminiTwoZoneNoiseModel")["cz_gate_loss_prob"]
    /\ nz_out.value["cz_gate_loss_prob"] > 0
    /\ nz_out.value["cz_paired_gate_px"] = 0
    /\ nz_out.value["cz_unpaired_loss_prob"] = 0

====
